---- MODULE Spec2Model ----
(***************************************************************************)
(* Model of the preflight engine of soroban-rpc                            *)
(* (cmd/soroban-rpc/lib/preflight/src/lib.rs and fees.rs).                 *)
(*                                                                         *)
(* Three specifications share the variables:                               *)
(*   Spec       one boundary call, step by step (lib.rs)                   *)
(*   SpecFees   the resource calculator applied to drawn inputs (fees.rs)  *)
(*   SpecInsns  the instruction margin applied to drawn u64 counts         *)
(***************************************************************************)
EXTENDS Integers, Sequences, FiniteSets, TLC

VARIABLES
    pc,            \* position of the boundary call, or the phase of a calculator run
    entry,         \* the entry point of the boundary call
    input,         \* the arguments of the boundary call
    snapshot,      \* what the caller's snapshot handle answers, per ledger key
    config,        \* what the snapshot answers for the three config settings
    footprint,     \* storage.footprint: ledger key -> access type
    storage_map,   \* storage.map: ledger key -> final value
    key_order,     \* the sort order of the ledger keys (iteration order of the maps)
    cpu_insns,     \* budget.get_cpu_insns_count(), a u64
    cpu_insns2,    \* a second count, for comparisons of two runs
    events,        \* encoded lengths of the diagnostic events
    host,          \* the machine of the call: auth mode, outcome of the invocation
    out,           \* the value computed by the last step
    overflow_checks, \* whether the build traps integer overflow (debug) or wraps (release)
    ret,           \* the record handed back over the boundary
    escaped,       \* how a panic left the boundary function, if one did
    heap,          \* the blocks the engine allocated and has not released
    records,       \* the record pointers the caller received, and whether it freed them
    fee_calls,     \* the fee computations the boundary call has entered
    exhausted,     \* the ledger keys whose metered footprint lookup the budget refuses
                   \* (in a boundary call: the one it refused)
    queries,       \* the other calls made on the signer of a signing call
    device,        \* the commands the signing device has received
    files          \* path -> content of the project directory

vars == <<pc, entry, input, snapshot, config, footprint, storage_map, key_order,
          cpu_insns, cpu_insns2, events, host, out, overflow_checks, ret, escaped,
          heap, records, fee_calls, exhausted, queries, device, files>>

\* the state of the command-line tools and of the signing device, which the
\* preflight library never touches
other_vars == <<queries, device, files>>

OtherInit == queries = <<>> /\ device = <<>> /\ files = <<>>

----------------------------------------------------------------------------
(* Bounds *)

NumKeys == 2

Keys == 1..NumKeys

\* boundary calls whose records the caller holds at once
MaxCalls == 2

\* entries of an array of a result record (authorization entries, events)
MaxEntries == 2

----------------------------------------------------------------------------
(* Result<T, E>: Ok(v), Err(e); a panic unwinding out of a callee is Panic(p) *)

Ok(v) == [tag |-> "Ok", val |-> v]

Err(e) == [tag |-> "Err", err |-> e]

Panic(p) == [tag |-> "Panic", payload |-> p]

IsOk(r) == r.tag = "Ok"

IsErr(r) == r.tag = "Err"

IsPanic(r) == r.tag = "Panic"

----------------------------------------------------------------------------
(* Encoded sizes.  to_xdr() of a well-typed value writes into a Vec and    *)
(* cannot fail; only the length of the encoding is used by the calculator. *)

\* lk.to_xdr()?.len(): XDR is 4-byte aligned, distinct keys may differ in size
key_xdr_len(lk) == 36 + 4 * lk

\* the entry the snapshot holds for a key, encoded
SnapshotEntryLen(lk) == IF lk = 1 THEN 40 ELSE 56 + 4 * lk

\* le.to_xdr()?.len() of the value a key holds at the end of execution
FinalEntryLen(lk) == IF lk = 1 THEN 32 ELSE 72 + 4 * lk

SnapshotAnswers(lk) ==
    { [tag |-> "Found", len |-> SnapshotEntryLen(lk)],
      [tag |-> "NotFound", len |-> 0],
      [tag |-> "Error", len |-> 0] }

Snapshots == { s \in [Keys -> UNION { SnapshotAnswers(k) : k \in Keys }] :
                 \A k \in Keys : s[k] \in SnapshotAnswers(k) }

AccessTypes == {"ReadOnly", "ReadWrite"}

\* Footprint: key -> Some(access type) | None
Footprints == [Keys -> AccessTypes \cup {"None"}]

StorageValues(lk) ==
    { [tag |-> "Absent", len |-> 0],                 \* key not in the map
      [tag |-> "Deleted", len |-> 0],                \* (lk, None)
      [tag |-> "Value", len |-> FinalEntryLen(lk)] } \* (lk, Some(le))

StorageMaps == { m \in [Keys -> UNION { StorageValues(k) : k \in Keys }] :
                   \A k \in Keys : m[k] \in StorageValues(k) }

Ascending == [i \in 1..NumKeys |-> i]

Descending == [i \in 1..NumKeys |-> NumKeys + 1 - i]

\* the maps are ordered by ledger key; which key sorts first is a property of the keys
KeyOrders == {Ascending, Descending}

EventLists == { <<>>, <<120>>, <<120, 88>> }

----------------------------------------------------------------------------
(* ledger_storage::LedgerStorage::get_xdr *)

get_xdr(snapshot_source, lk) ==
    CASE snapshot_source[lk].tag = "Found" -> Ok(snapshot_source[lk].len)
      [] snapshot_source[lk].tag = "NotFound" -> Err("NotFound")
      [] OTHER -> Err("snapshot lookup failed")

----------------------------------------------------------------------------
(* u64 and u32 values as little-endian base-2^16 limbs, so that counts     *)
(* beyond 2^31 keep their width: a u64 is <<l0, l1, l2, l3>>, a u32 is     *)
(* <<l0, l1>>.                                                             *)

Limb == 2 ^ 16

\* a small natural (below 2^31) as a u64
U64Of(n) == << n % Limb, n \div Limb, 0, 0 >>

\* x + y in u64: the wrapped sum and whether it overflowed
add_u64(x, y) ==
    LET s1 == x[1] + y[1]
        s2 == x[2] + y[2] + (s1 \div Limb)
        s3 == x[3] + y[3] + (s2 \div Limb)
        s4 == x[4] + y[4] + (s3 \div Limb)
    IN  [val |-> << s1 % Limb, s2 % Limb, s3 % Limb, s4 % Limb >>,
         overflow |-> s4 \div Limb > 0]

\* x * m in u64 for a small factor m
mul_u64(x, m) ==
    LET p1 == x[1] * m
        p2 == x[2] * m + (p1 \div Limb)
        p3 == x[3] * m + (p2 \div Limb)
        p4 == x[4] * m + (p3 \div Limb)
    IN  [val |-> << p1 % Limb, p2 % Limb, p3 % Limb, p4 % Limb >>,
         overflow |-> p4 \div Limb > 0]

\* x / d in u64 for a small divisor d (long division from the top limb)
div_u64(x, d) ==
    LET n4 == x[4]
        n3 == (n4 % d) * Limb + x[3]
        n2 == (n3 % d) * Limb + x[2]
        n1 == (n2 % d) * Limb + x[1]
    IN  << n1 \div d, n2 \div d, n3 \div d, n4 \div d >>

lt_u64(x, y) ==
    \E i \in 1..4 : x[i] < y[i] /\ \A j \in (i + 1)..4 : x[j] = y[j]

\* std::cmp::max
max_u64(x, y) == IF lt_u64(x, y) THEN y ELSE x

\* `v as u32`: the low 32 bits
as_u32(x) == << x[1], x[2] >>

\* a u32 widened back to u64
u32_to_u64(x) == << x[1], x[2], 0, 0 >>

\* an i64 is held in the same limbs in two's complement: -x, and x < y as i64
neg_i64(x) == add_u64([i \in 1..4 |-> Limb - 1 - x[i]], << 1, 0, 0, 0 >>).val

lt_i64(x, y) ==
    LET x_negative == x[4] >= Limb \div 2
        y_negative == y[4] >= Limb \div 2
    IN  IF x_negative # y_negative THEN x_negative ELSE lt_u64(x, y)

----------------------------------------------------------------------------
(* fees.rs *)

\* fees.rs:132-136, 139: "Add a 15% leeway with a minimum of 50k instructions".
\* Overflow of + or * panics when the build checks overflow and wraps otherwise.
instructions_with_leeway(count, checks) ==
    LET plus == add_u64(count, U64Of(50000))
        times == mul_u64(count, 115)
    IN  IF checks /\ plus.overflow THEN Panic("attempt to add with overflow")
        ELSE IF checks /\ times.overflow THEN Panic("attempt to multiply with overflow")
        ELSE Ok(as_u32(max_u64(plus.val, div_u64(times.val, 100))))

storage_footprint_to_ledger_footprint(foot, order) ==
    [read_only |-> SelectSeq(order, LAMBDA k : foot[k] = "ReadOnly"),
     read_write |-> SelectSeq(order, LAMBDA k : foot[k] = "ReadWrite")]

RECURSIVE unmodified_loop(_, _, _)
unmodified_loop(ledger_entries, snapshot_source, res) ==
    IF ledger_entries = <<>> THEN Ok(res)
    ELSE LET lk == Head(ledger_entries)
             res1 == res + key_xdr_len(lk)
             got == get_xdr(snapshot_source, lk)
         IN  IF IsOk(got)
             THEN unmodified_loop(Tail(ledger_entries), snapshot_source, res1 + got.val)
             ELSE IF got.err = "NotFound"
             THEN unmodified_loop(Tail(ledger_entries), snapshot_source, res1)
             ELSE Err(got.err)

RECURSIVE unmodified_loop_not_found_fails(_, _, _)
unmodified_loop_not_found_fails(ledger_entries, snapshot_source, res) ==
    IF ledger_entries = <<>> THEN Ok(res)
    ELSE LET lk == Head(ledger_entries)
             got == get_xdr(snapshot_source, lk)
         IN  IF IsOk(got)
             THEN unmodified_loop_not_found_fails(Tail(ledger_entries), snapshot_source,
                                                  res + key_xdr_len(lk) + got.val)
             ELSE Err(got.err)

\* a variant that treats NotFound like any other lookup error
unmodified_bytes_not_found_fails(ledger_entries, snapshot_source) ==
    unmodified_loop_not_found_fails(ledger_entries, snapshot_source, 0)

RECURSIVE unmodified_loop_entries_only(_, _, _)
unmodified_loop_entries_only(ledger_entries, snapshot_source, res) ==
    IF ledger_entries = <<>> THEN Ok(res)
    ELSE LET got == get_xdr(snapshot_source, Head(ledger_entries))
         IN  IF IsOk(got)
             THEN unmodified_loop_entries_only(Tail(ledger_entries), snapshot_source,
                                               res + got.val)
             ELSE IF got.err = "NotFound"
             THEN unmodified_loop_entries_only(Tail(ledger_entries), snapshot_source, res)
             ELSE Err(got.err)

\* a variant that counts the entry bytes only, not the key bytes
unmodified_bytes_entries_only(ledger_entries, snapshot_source) ==
    unmodified_loop_entries_only(ledger_entries, snapshot_source, 0)

calculate_unmodified_ledger_entry_bytes(ledger_entries, snapshot_source) ==
    unmodified_loop(ledger_entries, snapshot_source, 0)

\* the (key, value) pairs of the storage map in iteration order; a budget is the
\* set of ledger keys whose metered footprint lookup it refuses
storage_map_iter(smap, order) == SelectSeq(order, LAMBDA k : smap[k].tag # "Absent")

RECURSIVE modified_loop(_, _, _, _, _)
modified_loop(keys, foot, smap, budget, res) ==
    IF keys = <<>> THEN Ok(res)
    ELSE LET lk == Head(keys)
             ole == smap[lk]
         IN  IF lk \in budget THEN Err("HostError: Error(Budget, ExceededLimit)")
             ELSE CASE foot[lk] = "ReadOnly" -> modified_loop(Tail(keys), foot, smap, budget, res)
               [] foot[lk] = "ReadWrite" ->
                    IF ole.tag = "Value"
                    THEN modified_loop(Tail(keys), foot, smap, budget,
                                       res + (ole.len + key_xdr_len(lk)))
                    ELSE modified_loop(Tail(keys), foot, smap, budget, res)
               [] OTHER -> Err("storage ledger entry not found in footprint")

RECURSIVE modified_loop_all_values(_, _, _, _, _)
modified_loop_all_values(keys, foot, smap, budget, res) ==
    IF keys = <<>> THEN Ok(res)
    ELSE LET lk == Head(keys)
             ole == smap[lk]
         IN  IF lk \in budget THEN Err("HostError: Error(Budget, ExceededLimit)")
             ELSE IF foot[lk] = "None" THEN Err("storage ledger entry not found in footprint")
             ELSE IF ole.tag = "Value"
             THEN modified_loop_all_values(Tail(keys), foot, smap, budget,
                                           res + (ole.len + key_xdr_len(lk)))
             ELSE modified_loop_all_values(Tail(keys), foot, smap, budget, res)

\* a variant that charges ReadOnly keys too
modified_bytes_all_values(foot, smap, order, budget) ==
    modified_loop_all_values(storage_map_iter(smap, order), foot, smap, budget, 0)

calculate_modified_read_write_ledger_entry_bytes(foot, smap, order, budget) ==
    modified_loop(storage_map_iter(smap, order), foot, smap, budget, 0)

RECURSIVE event_size_loop(_, _)
event_size_loop(evs, res) ==
    IF evs = <<>> THEN res ELSE event_size_loop(Tail(evs), res + Head(evs))

calculate_event_size_bytes(evs) == event_size_loop(evs, 0)

\* a variant whose read_bytes forgets the ReadWrite keys
resources_read_only_bytes(snapshot_source, foot, smap, order, count, evs, checks, budget) ==
    LET fp == storage_footprint_to_ledger_footprint(foot, order)
        original_write == calculate_unmodified_ledger_entry_bytes(fp.read_write, snapshot_source)
        read_only_bytes == calculate_unmodified_ledger_entry_bytes(fp.read_only, snapshot_source)
        write_bytes == calculate_modified_read_write_ledger_entry_bytes(foot, smap, order, budget)
        instructions == instructions_with_leeway(count, checks)
    IN  IF ~IsOk(original_write) THEN original_write
        ELSE IF ~IsOk(read_only_bytes) THEN read_only_bytes
        ELSE IF ~IsOk(write_bytes) THEN write_bytes
        ELSE IF ~IsOk(instructions) THEN instructions
        ELSE Ok([footprint |-> fp,
                 instructions |-> instructions.val,
                 read_bytes |-> read_only_bytes.val,
                 write_bytes |-> write_bytes.val,
                 extended_meta_data_size_bytes |->
                     original_write.val + write_bytes.val + calculate_event_size_bytes(evs)])

\* a variant whose metadata size charges the prior state of the ReadOnly keys too
resources_metadata_of_all_reads(snapshot_source, foot, smap, order, count, evs, checks, budget) ==
    LET fp == storage_footprint_to_ledger_footprint(foot, order)
        original_write == calculate_unmodified_ledger_entry_bytes(fp.read_write, snapshot_source)
        read_only_bytes == calculate_unmodified_ledger_entry_bytes(fp.read_only, snapshot_source)
        write_bytes == calculate_modified_read_write_ledger_entry_bytes(foot, smap, order, budget)
        instructions == instructions_with_leeway(count, checks)
    IN  IF ~IsOk(original_write) THEN original_write
        ELSE IF ~IsOk(read_only_bytes) THEN read_only_bytes
        ELSE IF ~IsOk(write_bytes) THEN write_bytes
        ELSE IF ~IsOk(instructions) THEN instructions
        ELSE Ok([footprint |-> fp,
                 instructions |-> instructions.val,
                 read_bytes |-> read_only_bytes.val + original_write.val,
                 write_bytes |-> write_bytes.val,
                 extended_meta_data_size_bytes |->
                     read_only_bytes.val + original_write.val + write_bytes.val
                     + calculate_event_size_bytes(evs)])

calculate_soroban_resources(snapshot_source, foot, smap, order, count, evs, checks, budget) ==
    LET fp == storage_footprint_to_ledger_footprint(foot, order)
        original_write == calculate_unmodified_ledger_entry_bytes(fp.read_write, snapshot_source)
        read_only_bytes == calculate_unmodified_ledger_entry_bytes(fp.read_only, snapshot_source)
        write_bytes == calculate_modified_read_write_ledger_entry_bytes(foot, smap, order, budget)
        instructions == instructions_with_leeway(count, checks)
    IN  IF ~IsOk(original_write) THEN original_write
        ELSE IF ~IsOk(read_only_bytes) THEN read_only_bytes
        ELSE IF ~IsOk(write_bytes) THEN write_bytes
        ELSE IF ~IsOk(instructions) THEN instructions
        ELSE Ok([footprint |-> fp,
                 instructions |-> instructions.val,
                 read_bytes |-> read_only_bytes.val + original_write.val,
                 write_bytes |-> write_bytes.val,
                 extended_meta_data_size_bytes |->
                     original_write.val + write_bytes.val + calculate_event_size_bytes(evs)])

\* a variant with a sign slip in the metadata rate
fee_configuration_negative_metadata_rate ==
    [fee_per_instruction_increment |-> 100,
     fee_per_read_entry |-> 5000,
     fee_per_write_entry |-> 20000,
     fee_per_read_1kb |-> 1000,
     fee_per_write_1kb |-> 4000,
     fee_per_historical_1kb |-> 100,
     fee_per_metadata_1kb |-> 0 - 200,
     fee_per_propagate_1kb |-> 2000]

\* fees.rs:146-163, the hardcoded FeeConfiguration
get_fee_configuration ==
    [fee_per_instruction_increment |-> 100,
     fee_per_read_entry |-> 5000,
     fee_per_write_entry |-> 20000,
     fee_per_read_1kb |-> 1000,
     fee_per_write_1kb |-> 4000,
     fee_per_historical_1kb |-> 100,
     fee_per_metadata_1kb |-> 200,
     fee_per_propagate_1kb |-> 2000]

\* InvokeHostFunctionOp.to_xdr().len(): the host function, the length prefix of the
\* auth vector, and each authorization entry
op_xdr_len(op) == op.host_function_len + 4 + calculate_event_size_bytes(op.auth_lens)

RECURSIVE keys_xdr_len(_)
keys_xdr_len(list) ==
    IF list = <<>> THEN 0 ELSE key_xdr_len(Head(list)) + keys_xdr_len(Tail(list))

\* TransactionV1Envelope.to_xdr().len() of the envelope built in fees.rs:58-100:
\*   source MuxedEd25519 44, fee 4, seq_num 8, cond 4, memo type 4 + text 4 + 28,
\*   operations 4, operation source 4 + 44, body type 4, the operation,
\*   ext 4, the two key vectors 4 + 4 and their keys, four u32 resources 16,
\*   refundable_fee 8, ext 4, signatures 4 + 20 * (hint 4 + empty signature 4)
envelope_xdr_len(op, fp) ==
    44 + 4 + 8 + 4 + (4 + 4 + 28) + 4 + (4 + 44) + 4 + op_xdr_len(op)
    + 4 + (4 + keys_xdr_len(fp.read_only)) + (4 + keys_xdr_len(fp.read_write)) + 16 + 8 + 4
    + 4 + 20 * (4 + 4)

estimate_max_transaction_size(op, fp) == (envelope_xdr_len(op, fp) * 115) \div 100

\* soroban_env_host::fees::compute_fee_per_increment: ceil(value * rate / increment)
\* in i64; the value is a u32 and the rate an i64
compute_fee_per_increment(value, rate, increment) ==
    IF rate >= 0
    THEN div_u64(add_u64(mul_u64(value, rate).val, U64Of(increment - 1)).val, increment)
    ELSE neg_i64(div_u64(mul_u64(value, 0 - rate).val, increment))

\* soroban_env_host::fees::compute_transaction_resource_fee: (fee, refundable fee)
compute_transaction_resource_fee(tx, cfg) ==
    LET compute_fee == compute_fee_per_increment(u32_to_u64(tx.instructions),
                                                 cfg.fee_per_instruction_increment, 10000)
        read_entry_fee == U64Of(cfg.fee_per_read_entry * tx.read_entries)
        write_entry_fee == U64Of(cfg.fee_per_write_entry * tx.write_entries)
        read_bytes_fee == compute_fee_per_increment(U64Of(tx.read_bytes),
                                                    cfg.fee_per_read_1kb, 1024)
        write_bytes_fee == compute_fee_per_increment(U64Of(tx.write_bytes),
                                                     cfg.fee_per_write_1kb, 1024)
        historical_fee == compute_fee_per_increment(U64Of(tx.transaction_size_bytes),
                                                    cfg.fee_per_historical_1kb, 1024)
        meta_data_fee == compute_fee_per_increment(U64Of(tx.metadata_size_bytes),
                                                   cfg.fee_per_metadata_1kb, 1024)
        bandwidth_fee == compute_fee_per_increment(U64Of(tx.transaction_size_bytes),
                                                   cfg.fee_per_propagate_1kb, 1024)
        plus(a, b) == add_u64(a, b).val
        non_refundable == plus(compute_fee, plus(read_entry_fee, plus(write_entry_fee,
                          plus(read_bytes_fee, plus(write_bytes_fee,
                          plus(historical_fee, bandwidth_fee))))))
    IN  << plus(meta_data_fee, non_refundable), meta_data_fee >>

\* a variant that counts the ReadOnly keys only as read entries
compute_with_read_only_entries(op, snapshot_source, foot, smap, order, count, evs, checks, budget) ==
    LET soroban_resources ==
            calculate_soroban_resources(snapshot_source, foot, smap, order, count, evs, checks, budget)
        res == soroban_resources.val
        read_write_entries == Len(res.footprint.read_write)
        transaction_resources ==
            [instructions |-> res.instructions,
             read_entries |-> Len(res.footprint.read_only),
             write_entries |-> read_write_entries,
             read_bytes |-> res.read_bytes,
             write_bytes |-> res.write_bytes,
             metadata_size_bytes |-> res.extended_meta_data_size_bytes,
             transaction_size_bytes |-> estimate_max_transaction_size(op, res.footprint)]
        fees == compute_transaction_resource_fee(transaction_resources, get_fee_configuration)
    IN  IF ~IsOk(soroban_resources) THEN soroban_resources
        ELSE Ok([transaction_data |-> [resources |-> res, refundable_fee |-> fees[2]],
                 min_fee |-> fees[1],
                 transaction_resources |-> transaction_resources])

\* fees.rs:18-52
compute_transaction_data_and_min_fee(op, snapshot_source, foot, smap, order, count, evs, checks, budget) ==
    LET soroban_resources ==
            calculate_soroban_resources(snapshot_source, foot, smap, order, count, evs, checks, budget)
        res == soroban_resources.val
        read_write_entries == Len(res.footprint.read_write)
        transaction_resources ==
            [instructions |-> res.instructions,
             read_entries |-> Len(res.footprint.read_only) + read_write_entries,
             write_entries |-> read_write_entries,
             read_bytes |-> res.read_bytes,
             write_bytes |-> res.write_bytes,
             metadata_size_bytes |-> res.extended_meta_data_size_bytes,
             transaction_size_bytes |-> estimate_max_transaction_size(op, res.footprint)]
        fees == compute_transaction_resource_fee(transaction_resources, get_fee_configuration)
    IN  IF ~IsOk(soroban_resources) THEN soroban_resources
        ELSE Ok([transaction_data |-> [resources |-> res, refundable_fee |-> fees[2]],
                 min_fee |-> fees[1],
                 transaction_resources |-> transaction_resources])

----------------------------------------------------------------------------
(* Values of the variables a specification does not use *)

NoValue == [tag |-> "None"]

NoInput == [op |-> "none"]

NoConfig == [compute |-> "none"]

NoHost == [mode |-> "none"]

Zero64 == U64Of(0)

\* no block allocated, no release gone wrong
EmptyHeap == [live |-> {}, fault |-> FALSE]

----------------------------------------------------------------------------
(* SpecFees: the resource calculator applied to drawn inputs *)

\* the counts of the budget: a usual one, and one whose product with 115 leaves u64
\* (fees.rs:133-136)
FeesCpuCounts == { U64Of(1000000), << 0, 0, 0, 32767 >> }

FeesEventLists == { <<>>, <<120, 88>> }

FeesInit ==
    /\ pc = "input"
    /\ footprint \in Footprints
    /\ storage_map \in StorageMaps
    /\ snapshot \in Snapshots
    /\ key_order \in KeyOrders
    /\ events \in FeesEventLists
    /\ cpu_insns \in FeesCpuCounts
    /\ cpu_insns2 = Zero64
    /\ overflow_checks \in BOOLEAN
    /\ out = NoValue
    /\ entry = "none" /\ input = NoInput /\ config = NoConfig /\ host = NoHost
    /\ ret = NoValue /\ escaped = "no"
    /\ heap = EmptyHeap /\ records = <<>> /\ fee_calls = <<>>
    /\ exhausted \in { {} } \cup { {k} : k \in Keys }
    /\ OtherInit

FeesFrame ==
    UNCHANGED <<entry, input, snapshot, config, footprint, storage_map, key_order,
                cpu_insns, cpu_insns2, events, host, overflow_checks, ret, escaped,
                heap, records, fee_calls, exhausted, other_vars>>

\* calculate_unmodified_ledger_entry_bytes on one of the two lists of the footprint
FeesUnmodified ==
    /\ pc = "input"
    /\ \E which \in {"read_only", "read_write"} :
         LET fp == storage_footprint_to_ledger_footprint(footprint, key_order)
             list == IF which = "read_only" THEN fp.read_only ELSE fp.read_write
         IN  out' = [keys |-> list,
                     r |-> calculate_unmodified_ledger_entry_bytes(list, snapshot)]
    /\ pc' = "unmodified"
    /\ FeesFrame

FeesModified ==
    /\ pc = "input"
    /\ out' = calculate_modified_read_write_ledger_entry_bytes(footprint, storage_map, key_order, exhausted)
    /\ pc' = "modified"
    /\ FeesFrame

FeesResources ==
    /\ pc = "input"
    /\ out' = calculate_soroban_resources(snapshot, footprint, storage_map, key_order,
                                          cpu_insns, events, overflow_checks, exhausted)
    /\ pc' = "resources"
    /\ FeesFrame

\* the operations handed to the fee computation: a small invocation without
\* authorization entries and a large one (a contract upload) with two entries
FeesOps ==
    { [host_function_len |-> 96, auth_lens |-> <<>>],
      [host_function_len |-> 9000, auth_lens |-> <<96, 24>>] }

\* fees.rs:18-52 on a drawn operation
FeesCompute ==
    /\ pc = "input"
    /\ \E op \in FeesOps :
         out' = [op |-> op,
                 r |-> compute_transaction_data_and_min_fee(
                           op, snapshot, footprint, storage_map, key_order,
                           cpu_insns, events, overflow_checks, exhausted)]
    /\ pc' = "computed"
    /\ FeesFrame

FeesNext == FeesUnmodified \/ FeesModified \/ FeesResources \/ FeesCompute

SpecFees == FeesInit /\ [][FeesNext]_vars

----------------------------------------------------------------------------
(* SpecInsns: the instruction margin applied to drawn u64 counts.  The     *)
(* budget's limit is tx_max_instructions, an i64 read from the snapshot    *)
(* and cast to u64 (lib.rs:210-211); nothing keeps a count below 2^32.     *)
(* The counts drawn here stay below 2^34, where + and * are exact in u64;  *)
(* they include 333333 and 333334, where the two margins cross, and        *)
(* 3734754170 and 3734754171, where the margin reaches 2^32.               *)

CpuCounts ==
    { << a, b, c, 0 >> : a \in {0, 1, 5653, 5654, 54138, 54139, 65535},
                         b \in {0, 5, 56987, 65535}, c \in {0, 1, 3} }

InsnsInit ==
    /\ pc = "input"
    /\ cpu_insns \in CpuCounts
    /\ cpu_insns2 \in CpuCounts
    /\ overflow_checks = TRUE
    /\ out = NoValue
    /\ footprint = [k \in Keys |-> "None"]
    /\ storage_map = [k \in Keys |-> [tag |-> "Absent", len |-> 0]]
    /\ snapshot = [k \in Keys |-> [tag |-> "NotFound", len |-> 0]]
    /\ key_order = Ascending
    /\ events = <<>>
    /\ entry = "none" /\ input = NoInput /\ config = NoConfig /\ host = NoHost
    /\ ret = NoValue /\ escaped = "no"
    /\ heap = EmptyHeap /\ records = <<>> /\ fee_calls = <<>> /\ exhausted = {} /\ OtherInit

\* fees.rs:132-139 for each of the two counts
InsnsApply ==
    /\ pc = "input"
    /\ out' = << instructions_with_leeway(cpu_insns, overflow_checks),
                 instructions_with_leeway(cpu_insns2, overflow_checks) >>
    /\ pc' = "insns"
    /\ FeesFrame

InsnsNext == InsnsApply

SpecInsns == InsnsInit /\ [][InsnsNext]_vars

----------------------------------------------------------------------------
(* SpecRates: the fee formula with the fixed rate table applied to two     *)
(* resource descriptors, the second larger than the first in one dimension *)
(* and equal to it in the others.  The values sit around the increments of *)
(* the formula (10000 instructions, 1024 bytes) and at the top of u32.     *)

DimensionValues ==
    [instructions |-> { << 0, 0 >>, << 10000, 0 >>, << 65535, 65535 >> },
     read_entries |-> { 0, 40 },
     write_entries |-> { 0, 40 },
     read_bytes |-> { 0, 1024, 1025 },
     write_bytes |-> { 0, 200000 },
     metadata_size_bytes |-> { 0, 1, 2048 },
     transaction_size_bytes |-> { 0, 1024, 1025 }]

Dimensions == DOMAIN DimensionValues

TransactionResources ==
    [instructions : DimensionValues.instructions,
     read_entries : DimensionValues.read_entries,
     write_entries : DimensionValues.write_entries,
     read_bytes : DimensionValues.read_bytes,
     write_bytes : DimensionValues.write_bytes,
     metadata_size_bytes : DimensionValues.metadata_size_bytes,
     transaction_size_bytes : DimensionValues.transaction_size_bytes]

\* the order of a dimension: instructions are u32 limbs, the others plain numbers
DimensionLess(d, x, y) ==
    IF d = "instructions" THEN lt_u64(u32_to_u64(x), u32_to_u64(y)) ELSE x < y

RatesInit ==
    /\ pc = "input"
    /\ \E tx \in TransactionResources, d \in Dimensions :
         \E v \in DimensionValues[d] :
            /\ DimensionLess(d, tx[d], v)
            /\ input = [low |-> tx, high |-> [tx EXCEPT ![d] = v], dimension |-> d]
    /\ out = NoValue
    /\ footprint = [k \in Keys |-> "None"]
    /\ storage_map = [k \in Keys |-> [tag |-> "Absent", len |-> 0]]
    /\ snapshot = [k \in Keys |-> [tag |-> "NotFound", len |-> 0]]
    /\ key_order = Ascending
    /\ events = <<>>
    /\ cpu_insns = Zero64 /\ cpu_insns2 = Zero64
    /\ overflow_checks = TRUE
    /\ entry = "none" /\ config = NoConfig /\ host = NoHost
    /\ ret = NoValue /\ escaped = "no"
    /\ heap = EmptyHeap /\ records = <<>> /\ fee_calls = <<>> /\ exhausted = {} /\ OtherInit

\* fees.rs:26, 44-45 for each of the two descriptors
RatesQuote ==
    /\ pc = "input"
    /\ out' = [low |-> compute_transaction_resource_fee(input.low, get_fee_configuration),
               high |-> compute_transaction_resource_fee(input.high, get_fee_configuration)]
    /\ pc' = "quoted"
    /\ FeesFrame

RatesNext == RatesQuote

SpecRates == RatesInit /\ [][RatesNext]_vars

----------------------------------------------------------------------------
(* lib.rs: the boundary call *)

\* A pointer is <<>> when null and <<v>> when it points at v.
Null == <<>>

Ptr(v) == << v >>

\* A message is its text and whether it holds a NUL byte.  The Display of every
\* error and the unwrap/panic! messages of lib.rs are formatted text without NUL;
\* a String panic payload raised inside the machine is arbitrary.
Msg(t) == [text |-> t, nul |-> FALSE]

PanicPayloads ==
    { [type |-> "String", text |-> "index out of bounds", nul |-> FALSE],
      [type |-> "String", text |-> "bad symbol", nul |-> TRUE],
      [type |-> "&str", text |-> "explicit panic", nul |-> FALSE],
      [type |-> "other", text |-> "", nul |-> FALSE] }

OverflowPayload(t) == [type |-> "&str", text |-> t, nul |-> FALSE]

FormattedPayload(t) == [type |-> "String", text |-> t, nul |-> FALSE]

\* a variant that leaves a success field set next to the error string
preflight_error_keeps_fields(str) ==
    Ok([error |-> Ptr(str.text),
        auth |-> Null,
        result |-> Null,
        transaction_data |-> Ptr("stale"),
        min_fee |-> Zero64,
        events |-> Null,
        cpu_instructions |-> Zero64,
        memory_bytes |-> 0])

\* lib.rs:72-86.  CString::new fails on an interior NUL and the unwrap panics.
preflight_error(str) ==
    IF str.nul
    THEN Panic(FormattedPayload("called Result::unwrap() on an Err value: NulError"))
    ELSE Ok([error |-> Ptr(str.text),
             auth |-> Null,
             result |-> Null,
             transaction_data |-> Null,
             min_fee |-> Zero64,
             events |-> Null,
             cpu_instructions |-> Zero64,
             memory_bytes |-> 0])

\* lib.rs:327-345.  Ok(record): the record is returned; Panic: a panic raised
\* outside catch_unwind leaves the extern "C" function.
catch_preflight_panic(res) ==
    CASE IsPanic(res) ->
           IF res.payload.type = "String"
           THEN preflight_error([text |-> "panic during preflight() call: " \o res.payload.text,
                                 nul |-> res.payload.nul])
           ELSE preflight_error(Msg("panic during preflight() call: unknown cause"))
      [] IsOk(res) -> Ok(res.val)
      [] OTHER -> preflight_error(Msg(res.err))

\* a variant that takes a payload with only one of address and nonce for a
\* source-account authorization
recorded_auth_payload_guessed(payload) ==
    IF payload.address # Null /\ payload.nonce # Null
    THEN Ok([credentials |-> [type |-> "Address",
                              address |-> payload.address[1],
                              nonce |-> payload.nonce[1],
                              signature_expiration_ledger |-> 0,
                              signature |-> "Void"],
             root_invocation |-> payload.invocation])
    ELSE Ok([credentials |-> [type |-> "SourceAccount"],
             root_invocation |-> payload.invocation])

\* lib.rs:357-378
recorded_auth_payload_to_xdr(payload) ==
    CASE payload.address # Null /\ payload.nonce # Null ->
           Ok([credentials |-> [type |-> "Address",
                                address |-> payload.address[1],
                                nonce |-> payload.nonce[1],
                                signature_expiration_ledger |-> 0,
                                signature |-> "Void"],
               root_invocation |-> payload.invocation])
      [] payload.address = Null /\ payload.nonce = Null ->
           Ok([credentials |-> [type |-> "SourceAccount"],
               root_invocation |-> payload.invocation])
      [] OTHER ->
           Panic(FormattedPayload(
               "recorded_auth_payload_to_xdr: address and nonce present independently"))

RECURSIVE recorded_auth_payloads_to_xdr(_)
\* lib.rs:141-146: payloads.iter().map(recorded_auth_payload_to_xdr).collect()
recorded_auth_payloads_to_xdr(payloads) ==
    IF payloads = <<>> THEN Ok(<<>>)
    ELSE LET first == recorded_auth_payload_to_xdr(Head(payloads))
             rest == recorded_auth_payloads_to_xdr(Tail(payloads))
         IN  IF ~IsOk(first) THEN first
             ELSE IF ~IsOk(rest) THEN rest
             ELSE Ok(<< first.val >> \o rest.val)

\* to_xdr_base64 of a value: the text that decodes to it
B64(v) == [base64 |-> v]

\* lib.rs:402-415 on the base64 texts of a vector: the array without its ending NULL
string_vec_to_c_null_terminated_char_array(v) == Ptr([i \in 1..Len(v) |-> B64(v[i])])

ConfigSettings == {"ContractComputeV0", "ContractCostParamsCpuInstructions",
                   "ContractCostParamsMemoryBytes"}

ConfigAnswers == {"found", "missing", "wrong_variant"}

\* lib.rs:186-208: the settings queried, in order; the first failure ends the function
config_lookups(answers) ==
    IF answers["ContractComputeV0"] # "found" THEN << "ContractComputeV0" >>
    ELSE IF answers["ContractCostParamsCpuInstructions"] # "found"
    THEN << "ContractComputeV0", "ContractCostParamsCpuInstructions" >>
    ELSE << "ContractComputeV0", "ContractCostParamsCpuInstructions",
            "ContractCostParamsMemoryBytes" >>

\* a variant that goes on with default cost parameters when a cost-parameter setting
\* is missing or of the wrong variant
get_budget_with_default_cost_params(answers, budget_ok) ==
    IF answers["ContractComputeV0"] = "missing" THEN Err("config setting not found")
    ELSE IF answers["ContractComputeV0"] = "wrong_variant"
    THEN Err("get_budget_from_network_config_params((): unexpected config setting entry for ComputeV0 key")
    ELSE IF ~budget_ok THEN Err("HostError: Error(Budget, InvalidInput)")
    ELSE Ok("budget")

\* lib.rs:183-217
get_budget_from_network_config_params(answers, budget_ok) ==
    LET lookup(id) ==
            IF answers[id] = "missing" THEN Err("config setting not found")
            ELSE IF answers[id] = "wrong_variant"
            THEN Err("get_budget_from_network_config_params((): unexpected config setting entry for ComputeV0 key")
            ELSE Ok(id)
        compute == lookup("ContractComputeV0")
        cost_params_cpu == lookup("ContractCostParamsCpuInstructions")
        cost_params_memory == lookup("ContractCostParamsMemoryBytes")
    IN  IF ~IsOk(compute) THEN compute
        ELSE IF ~IsOk(cost_params_cpu) THEN cost_params_cpu
        ELSE IF ~IsOk(cost_params_memory) THEN cost_params_memory
        ELSE IF ~budget_ok THEN Err("HostError: Error(Budget, InvalidInput)")
        ELSE Ok("budget")

SuppliedAuths ==
    { <<>>,
      << [credentials |-> [type |-> "Address",
                           address |-> "GABC",
                           nonce |-> 7,
                           signature_expiration_ledger |-> 100,
                           signature |-> "Signed"],
          root_invocation |-> "transfer"],
         [credentials |-> [type |-> "SourceAccount"], root_invocation |-> "mint"] >> }

\* what the machine recorded in auth-recording mode
RecordedPayloadLists ==
    { <<>>,
      << [address |-> Ptr("GABC"), nonce |-> Ptr(7), invocation |-> "transfer"],
         [address |-> Null, nonce |-> Null, invocation |-> "mint"] >>,
      << [address |-> Ptr("GABC"), nonce |-> Null, invocation |-> "transfer"] >>,
      << [address |-> Null, nonce |-> Null, invocation |-> "mint"],
         [address |-> Null, nonce |-> Ptr(7), invocation |-> "transfer"] >> }

\* A recording storage holds every key it touched in its footprint.
RecordingRuns ==
    { run \in [foot : Footprints, smap : StorageMaps] :
        \A k \in Keys : (run.foot[k] = "None") <=> (run.smap[k].tag = "Absent") }

\* counts the machine can report: a usual one, one whose margin leaves u32, and one
\* whose product with 115 leaves u64
PipelineCpuCounts == { U64Of(1000000), << 0, 0, 1, 0 >>, << 0, 0, 0, 32767 >> }

NoRun == [invocation |-> "none", mode |-> "none", enforced |-> <<>>, harvested |-> FALSE,
          payloads |-> <<>>, auths |-> <<>>]

EmptyFootprint == [k \in Keys |-> "None"]

EmptyStorageMap == [k \in Keys |-> [tag |-> "Absent", len |-> 0]]

EmptySnapshot == [k \in Keys |-> [tag |-> "NotFound", len |-> 0]]

Init ==
    /\ pc = "idle"
    /\ entry = "none"
    /\ input = NoInput
    /\ snapshot = EmptySnapshot
    /\ config = NoConfig
    /\ footprint = EmptyFootprint
    /\ storage_map = EmptyStorageMap
    /\ key_order = Ascending
    /\ cpu_insns = Zero64
    /\ cpu_insns2 = Zero64
    /\ events = <<>>
    /\ host = NoRun
    /\ out = NoValue
    /\ overflow_checks = TRUE
    /\ ret = NoValue
    /\ escaped = "no"
    /\ heap = EmptyHeap
    /\ records = <<>>
    /\ fee_calls = <<>> /\ exhausted = {} /\ OtherInit

\* The closure handed to catch_preflight_panic ended with res: the record goes back to
\* the caller, or the panic of preflight_error leaves the extern "C" function, which
\* aborts the process or unwinds into the foreign caller, depending on the toolchain.
Return(res) ==
    LET caught == catch_preflight_panic(res)
    IN  /\ out' = res
        /\ pc' = "returned"
        /\ IF IsOk(caught)
           THEN ret' = caught.val /\ escaped' = "no"
           ELSE ret' = NoValue /\ escaped' \in {"abort", "unwind"}

MachineFrame == UNCHANGED <<footprint, storage_map, key_order, cpu_insns, events>>

\* lib.rs:88-105, 219-236: the caller enters one of the two entry points
Call ==
    /\ pc = "idle"
    /\ entry' \in {"invoke", "footprint"}
    /\ pc' = "decode"
    /\ UNCHANGED <<input, snapshot, config, host, out, overflow_checks, ret, escaped,
                   cpu_insns2, heap, records, fee_calls, exhausted, other_vars>>
    /\ MachineFrame

\* lib.rs:114-117
DecodeInvoke ==
    /\ pc = "decode" /\ entry = "invoke"
    /\ \/ /\ \E e \in {"invalid utf-8 sequence", "xdr value invalid"} : Return(Err(e))
          /\ UNCHANGED input
       \/ /\ \E a \in SuppliedAuths :
               input' = [op |-> "InvokeHostFunction", auth |-> a, host_function_len |-> 96]
          /\ pc' = "budget"
          /\ UNCHANGED <<out, ret, escaped>>
    /\ UNCHANGED <<entry, snapshot, config, host, overflow_checks, cpu_insns2, heap, records, fee_calls, exhausted, other_vars>>
    /\ MachineFrame

\* lib.rs:118-124
BudgetFromConfig ==
    /\ pc = "budget"
    /\ \E answers \in [ConfigSettings -> ConfigAnswers], budget_ok \in BOOLEAN :
         LET budget == get_budget_from_network_config_params(answers, budget_ok)
         IN  /\ config' = [compute |-> answers["ContractComputeV0"],
                           cpu |-> answers["ContractCostParamsCpuInstructions"],
                           memory |-> answers["ContractCostParamsMemoryBytes"],
                           lookups |-> config_lookups(answers)]
             /\ IF IsOk(budget)
                THEN pc' = "setup" /\ UNCHANGED <<out, ret, escaped>>
                ELSE Return(budget)
    /\ UNCHANGED <<entry, input, snapshot, host, overflow_checks, cpu_insns2, heap, records, fee_calls, exhausted, other_vars>>
    /\ MachineFrame

\* a variant that records authorizations whatever the operation carries
SetupHostAlwaysRecording ==
    /\ pc = "setup"
    /\ \E setter \in {"ok", "host_error", "passphrase_not_utf8"} :
         CASE setter = "host_error" ->
                Return(Err("HostError: Error(Context, InternalError)")) /\ UNCHANGED host
           [] setter = "passphrase_not_utf8" ->
                /\ Return(Panic(FormattedPayload(
                       "called Result::unwrap() on an Err value: Utf8Error")))
                /\ UNCHANGED host
           [] OTHER ->
                /\ host' = [host EXCEPT !.mode = "recording"]
                /\ pc' = "invoke"
                /\ UNCHANGED <<out, ret, escaped>>
    /\ UNCHANGED <<entry, input, snapshot, config, overflow_checks, cpu_insns2, heap, records, fee_calls, exhausted, other_vars>>
    /\ MachineFrame

\* lib.rs:126-135: the auth mode, then the setters; ledger_info.into() unwraps the
\* UTF-8 check of the passphrase (lib.rs:50)
SetupHost ==
    /\ pc = "setup"
    /\ \E setter \in {"ok", "host_error", "passphrase_not_utf8"} :
         CASE setter = "host_error" ->
                Return(Err("HostError: Error(Context, InternalError)")) /\ UNCHANGED host
           [] setter = "passphrase_not_utf8" ->
                /\ Return(Panic(FormattedPayload(
                       "called Result::unwrap() on an Err value: Utf8Error")))
                /\ UNCHANGED host
           [] OTHER ->
                /\ host' = IF input.auth = <<>>
                           THEN [host EXCEPT !.mode = "recording"]
                           ELSE [host EXCEPT !.mode = "enforcing", !.enforced = input.auth]
                /\ pc' = "invoke"
                /\ UNCHANGED <<out, ret, escaped>>
    /\ UNCHANGED <<entry, input, snapshot, config, overflow_checks, cpu_insns2, heap, records, fee_calls, exhausted, other_vars>>
    /\ MachineFrame

\* What the machine holds once invoke_function is over, whatever its outcome.
MachineRan(invocation) ==
    /\ \E run \in RecordingRuns : footprint' = run.foot /\ storage_map' = run.smap
    /\ key_order' = Ascending      \* the keys of a call are numbered in map order
    /\ events' \in FeesEventLists
    /\ cpu_insns' \in PipelineCpuCounts
    /\ \E payloads \in (IF host.mode = "recording" THEN RecordedPayloadLists ELSE {<<>>}) :
         host' = [host EXCEPT !.invocation = invocation, !.payloads = payloads]

\* lib.rs:137-138: host.invoke_function(..)?
InvokeFunction ==
    /\ pc = "invoke"
    /\ \/ /\ \E p \in PanicPayloads : Return(Panic(p))
          /\ host' = [host EXCEPT !.invocation = "Panic"]
          /\ MachineFrame
       \/ /\ MachineRan("Err")
          /\ Return(Err("HostError: Error(Contract, #1)"))
       \/ /\ MachineRan("Ok")
          /\ pc' = "harvest"
          /\ UNCHANGED <<out, ret, escaped>>
    /\ UNCHANGED <<entry, input, snapshot, config, overflow_checks, cpu_insns2, heap, records, fee_calls, exhausted, other_vars>>

\* lib.rs:139-155: the authorization entries, the budget, try_finish, the events
Harvest ==
    /\ pc = "harvest"
    /\ \E finish_ok \in BOOLEAN :
         LET auths == IF host.mode = "recording"
                      THEN recorded_auth_payloads_to_xdr(host.payloads)
                      ELSE Ok(input.auth)
         IN  IF ~IsOk(auths) THEN Return(auths) /\ UNCHANGED host
             ELSE IF ~finish_ok
             THEN Return(Err("HostError: Error(Context, InternalError)")) /\ UNCHANGED host
             ELSE /\ host' = [host EXCEPT !.harvested = TRUE, !.auths = auths.val]
                  /\ pc' = "fees"
                  /\ UNCHANGED <<out, ret, escaped>>
    /\ UNCHANGED <<entry, input, snapshot, config, overflow_checks, cpu_insns2, heap, records, fee_calls, exhausted, other_vars>>
    /\ MachineFrame

\* the encoded length of an authorization entry
auth_entry_xdr_len(a) ==
    IF a.credentials.type # "Address" THEN 24
    ELSE IF a.credentials.signature = "Void" THEN 96 ELSE 168

\* fees.rs:172: what the budget of a call does to the footprint lookups of its fee
\* computation, one for each key of the storage map: it refuses none, or it runs out
\* at one of them
BudgetOutcomes(smap) == { {} } \cup { {k} : k \in { lk \in Keys : smap[lk].tag # "Absent" } }

\* fees.rs:119-123: the snapshot is asked for the keys of the footprint only; the
\* answer it would give for another key is no part of the call and stays NotFound
AskedSnapshots(foot) == { s \in Snapshots : \A k \in Keys : foot[k] = "None" => s[k].tag = "NotFound" }

\* lib.rs:156-169: the fee computation, which queries the snapshot and charges the
\* budget; exhausted keeps the lookup the budget refused, if one was
ComputeFees ==
    /\ pc = "fees"
    /\ snapshot' \in AskedSnapshots(footprint)
    /\ overflow_checks' \in BOOLEAN
    /\ \E budget \in BudgetOutcomes(storage_map) :
         LET op == [host_function_len |-> input.host_function_len,
                    auth_lens |-> [i \in 1..Len(host.auths) |->
                                      auth_entry_xdr_len(host.auths[i])]]
             computed == compute_transaction_data_and_min_fee(
                             op, snapshot', footprint, storage_map, key_order,
                             cpu_insns, events, overflow_checks', budget)
         IN  /\ exhausted' = (IF computed = Err("HostError: Error(Budget, ExceededLimit)")
                              THEN budget ELSE {})
             /\ IF computed.tag = "Ok"
                THEN out' = computed.val /\ pc' = "marshal" /\ UNCHANGED <<ret, escaped>>
                ELSE IF computed.tag = "Panic"
                THEN Return(Panic(OverflowPayload(computed.payload)))
                ELSE Return(computed)
    /\ fee_calls' = Append(fee_calls, "compute_host_function_transaction_data_and_min_fee")
    /\ UNCHANGED <<entry, input, config, host, cpu_insns2, heap, records, other_vars>>
    /\ MachineFrame

\* lib.rs:170-180: the record, or the error of a ? on the way to it: an encoding
\* (lib.rs:170, 173, 174, 177) or a reading of the budget (lib.rs:178-179)
MarshalInvoke ==
    /\ pc = "marshal"
    /\ \/ \E e \in {"xdr value invalid", "HostError: Error(Context, InternalError)"} :
            Return(Err(e))
       \/ Return(Ok([error |-> Null,
                     auth |-> string_vec_to_c_null_terminated_char_array(host.auths),
                     result |-> Ptr(B64("ScVal")),
                     transaction_data |-> Ptr(B64(out.transaction_data)),
                     min_fee |-> out.min_fee,
                     events |-> string_vec_to_c_null_terminated_char_array(events),
                     cpu_instructions |-> cpu_insns,
                     memory_bytes |-> 4096]))
    /\ UNCHANGED <<entry, input, snapshot, config, host, overflow_checks, cpu_insns2, heap, records, fee_calls, exhausted, other_vars>>
    /\ MachineFrame

\* lib.rs:245-248
DecodeFootprintOp ==
    /\ pc = "decode" /\ entry = "footprint"
    /\ \/ /\ \E e \in {"invalid utf-8 sequence", "xdr value invalid"} : Return(Err(e))
          /\ UNCHANGED input
       \/ /\ \E body \in {"BumpFootprintExpiration", "RestoreFootprint", "InvokeHostFunction"} :
               input' = [op |-> body]
          /\ pc' = "dispatch"
          /\ UNCHANGED <<out, ret, escaped>>
    /\ UNCHANGED <<entry, snapshot, config, host, overflow_checks, cpu_insns2, heap, records, fee_calls, exhausted, other_vars>>
    /\ MachineFrame

\* the outcomes of fees::compute_bump_footprint_exp_transaction_data_and_min_fee and
\* fees::compute_restore_footprint_transaction_data_and_min_fee
\* (their panics are those of arithmetic and unwrap, with formatted messages)
FootprintFeeOutcomes ==
    { Ok([transaction_data |-> "SorobanTransactionData", min_fee |-> U64Of(60000)]),
      Err("snapshot lookup failed"),
      Panic(OverflowPayload("attempt to add with overflow")),
      Panic(FormattedPayload("called Result::unwrap() on an Err value")) }

\* lib.rs:279-286, 305-311: the fee computation of a supported operation
footprint_fee_function(op) ==
    IF op = "BumpFootprintExpiration"
    THEN "compute_bump_footprint_exp_transaction_data_and_min_fee"
    ELSE "compute_restore_footprint_transaction_data_and_min_fee"

\* lib.rs:274-325: preflight_bump_footprint_expiration and preflight_restore_footprint;
\* lib.rs:289, 314: the encoding of the transaction data may fail after the fee
\* computation
FootprintFee(op) ==
    /\ fee_calls' = Append(fee_calls, footprint_fee_function(op))
    /\ \E computed \in FootprintFeeOutcomes, encoded \in BOOLEAN :
          IF IsOk(computed) /\ ~encoded THEN Return(Err("xdr value invalid"))
          ELSE IF IsOk(computed)
          THEN Return(Ok([error |-> Null,
                          auth |-> Null,
                          result |-> Null,
                          transaction_data |-> Ptr(B64(computed.val.transaction_data)),
                          min_fee |-> computed.val.min_fee,
                          events |-> Null,
                          cpu_instructions |-> Zero64,
                          memory_bytes |-> 0]))
          ELSE Return(computed)

\* a variant that prices every decoded operation body
DispatchAnyOp ==
    /\ pc = "dispatch"
    /\ FootprintFee(input.op)
    /\ UNCHANGED <<entry, input, snapshot, config, host, overflow_checks, cpu_insns2, heap, records, exhausted, other_vars>>
    /\ MachineFrame

\* lib.rs:252-271
DispatchFootprintOp ==
    /\ pc = "dispatch"
    /\ IF input.op \in {"BumpFootprintExpiration", "RestoreFootprint"}
       THEN FootprintFee(input.op)
       ELSE /\ Return(Err("preflight_footprint_expiration_op(): unsupported operation type "
                          \o input.op))
            /\ UNCHANGED fee_calls
    /\ UNCHANGED <<entry, input, snapshot, config, host, overflow_checks, cpu_insns2, heap, records, exhausted, other_vars>>
    /\ MachineFrame

\* lib.rs:96-105, 227-235: the boundary function has returned, so every local of the
\* call (operation, storage, budget, machine, events) is dropped and the record is the
\* caller's; the process is ready for its next call.  No call follows a panic that
\* left the boundary function.
NextCall ==
    /\ pc = "returned" /\ escaped = "no"
    /\ pc' = "idle"
    /\ entry' = "none" /\ input' = NoInput /\ config' = NoConfig
    /\ footprint' = EmptyFootprint /\ storage_map' = EmptyStorageMap
    /\ key_order' = Ascending /\ cpu_insns' = Zero64 /\ events' = <<>>
    /\ host' = NoRun
    /\ out' = NoValue /\ ret' = NoValue
    /\ snapshot' = EmptySnapshot /\ overflow_checks' = TRUE
    /\ fee_calls' = <<>> /\ exhausted' = {}
    /\ UNCHANGED <<escaped, cpu_insns2, heap, records, other_vars>>

Next ==
    \/ Call
    \/ DecodeInvoke
    \/ BudgetFromConfig
    \/ SetupHost
    \/ InvokeFunction
    \/ Harvest
    \/ ComputeFees
    \/ MarshalInvoke
    \/ DecodeFootprintOp
    \/ DispatchFootprintOp
    \/ NextCall

Spec == Init /\ [][Next]_vars

----------------------------------------------------------------------------
(* lib.rs: the memory of the result records.  A block is what one          *)
(* allocation returned: its address, the type that owns it, its capacity   *)
(* (of a Vec) and its content (the pointers of an array, the pointer       *)
(* fields of a record).  The address of a block names the call that        *)
(* allocated it, the field it was allocated for and its place in the       *)
(* field's array (0 for the array itself).                                 *)

Block(addr, kind, cap, content) == [addr |-> addr, kind |-> kind, cap |-> cap, content |-> content]

\* CString::new(s)?.into_raw()
cstring_into_raw(addr) == Block(addr, "CString", 0, <<>>)

\* lib.rs:417-429: shrink_to_fit makes the capacity the length, then the Vec is forgotten
vec_to_c_array(addr, v) == Block(addr, "Vec", Len(v), v)

\* lib.rs:402-415 for a vector of n strings: one CString each, and the array of their
\* pointers with the ending NULL
string_vec_blocks(call, field, n) ==
    LET out_vec == [i \in 1..(n + 1) |-> IF i <= n THEN Ptr(<< call, field, i >>) ELSE Null]
    IN  { cstring_into_raw(<< call, field, i >>) : i \in 1..n }
        \cup { vec_to_c_array(<< call, field, 0 >>, out_vec) }

\* lib.rs:170-180, 341: the success record of an invocation
invoke_result_blocks(call, n_auth, n_events) ==
    LET record == [error |-> Null,
                   auth |-> Ptr(<< call, "auth", 0 >>),
                   result |-> Ptr(<< call, "result", 0 >>),
                   transaction_data |-> Ptr(<< call, "transaction_data", 0 >>),
                   events |-> Ptr(<< call, "events", 0 >>)]
    IN  { cstring_into_raw(<< call, "transaction_data", 0 >>) }
        \cup string_vec_blocks(call, "auth", n_auth)
        \cup { cstring_into_raw(<< call, "result", 0 >>) }
        \cup string_vec_blocks(call, "events", n_events)
        \cup { Block(<< call, "record", 0 >>, "Box", 0, record) }

\* lib.rs:289-299, 314-324, 341: the success record of a footprint operation
footprint_result_blocks(call) ==
    LET record == [error |-> Null,
                   auth |-> Null,
                   result |-> Null,
                   transaction_data |-> Ptr(<< call, "transaction_data", 0 >>),
                   events |-> Null]
    IN  { cstring_into_raw(<< call, "transaction_data", 0 >>),
          Block(<< call, "record", 0 >>, "Box", 0, record) }

\* lib.rs:72-86: the error-only record
error_result_blocks(call) ==
    LET record == [error |-> Ptr(<< call, "error", 0 >>),
                   auth |-> Null,
                   result |-> Null,
                   transaction_data |-> Null,
                   events |-> Null]
    IN  { cstring_into_raw(<< call, "error", 0 >>),
          Block(<< call, "record", 0 >>, "Box", 0, record) }

\* lib.rs:170-180 with 72-86: the blocks of a call whose record is error-only because
\* the ? of a marshalling step returned Err.  The fields built before the step are raw
\* pointers by then (into_raw at lib.rs:174-175, mem::forget at lib.rs:426) and stay
\* allocated; at lib.rs:174 transaction_data_cstr is still owned and is dropped.
failed_invoke_blocks(call, n_auth, n_events, step) ==
    error_result_blocks(call)
    \cup string_vec_blocks(call, "auth", n_auth)
    \cup (IF step \in {"events", "budget"}
          THEN { cstring_into_raw(<< call, "result", 0 >>),
                 cstring_into_raw(<< call, "transaction_data", 0 >>) }
          ELSE {})
    \cup (IF step = "budget" THEN string_vec_blocks(call, "events", n_events) ELSE {})

\* CString::from_raw, Vec::from_raw_parts, Box::from_raw dropped at once: the block at
\* addr is released as a value of the given type and capacity.  Releasing what is not
\* allocated, or as another type or capacity than it was allocated with, is undefined.
dealloc(h, addr, kind, cap) ==
    LET found == { b \in h.live : b.addr = addr /\ b.kind = kind /\ b.cap = cap }
    IN  IF found = {} THEN [h EXCEPT !.fault = TRUE] ELSE [h EXCEPT !.live = @ \ found]

\* what the memory at addr holds
content_at(h, addr) == (CHOOSE b \in h.live : b.addr = addr).content

RECURSIVE strings_before_null(_, _)
\* lib.rs:467-476: i after the loop, the number of pointers before the first null
strings_before_null(array, i) ==
    IF array[i + 1] = Null THEN i ELSE strings_before_null(array, i + 1)

RECURSIVE free_strings(_, _, _)
\* lib.rs:473-474 for the first i pointers of the array, in order
free_strings(h, array, i) ==
    IF i = 0 THEN h
    ELSE dealloc(free_strings(h, array, i - 1), array[i][1], "CString", 0)

\* a variant that rebuilds the vector without the place of the ending NULL
free_c_array_without_terminator(h, array) ==
    LET elems == content_at(h, array)
        i == strings_before_null(elems, 0)
    IN  dealloc(free_strings(h, elems, i), array, "Vec", i)

\* lib.rs:464-480
free_c_null_terminated_char_array(h, array) ==
    LET elems == content_at(h, array)
        i == strings_before_null(elems, 0)
    IN  dealloc(free_strings(h, elems, i), array, "Vec", i + 1)

\* lib.rs:437-462
free_preflight_result(h, result) ==
    IF result = Null THEN h
    ELSE LET r == content_at(h, result[1])
             h1 == IF r.error # Null THEN dealloc(h, r.error[1], "CString", 0) ELSE h
             h2 == IF r.auth # Null
                   THEN free_c_null_terminated_char_array(h1, r.auth[1]) ELSE h1
             h3 == IF r.result # Null THEN dealloc(h2, r.result[1], "CString", 0) ELSE h2
             h4 == IF r.transaction_data # Null
                   THEN dealloc(h3, r.transaction_data[1], "CString", 0) ELSE h3
             h5 == IF r.events # Null
                   THEN free_c_null_terminated_char_array(h4, r.events[1]) ELSE h4
         IN  dealloc(h5, result[1], "Box", 0)

----------------------------------------------------------------------------
(* SpecHeap: boundary calls, each taken as a whole, and the caller's       *)
(* releases of the records it received                                     *)

HeapInit ==
    /\ pc = "idle"
    /\ heap = EmptyHeap /\ records = <<>> /\ fee_calls = <<>> /\ exhausted = {} /\ OtherInit
    /\ out = NoValue
    /\ ret = Null
    /\ footprint = [k \in Keys |-> "None"]
    /\ storage_map = [k \in Keys |-> [tag |-> "Absent", len |-> 0]]
    /\ snapshot = [k \in Keys |-> [tag |-> "NotFound", len |-> 0]]
    /\ key_order = Ascending
    /\ events = <<>>
    /\ cpu_insns = Zero64 /\ cpu_insns2 = Zero64
    /\ overflow_checks = TRUE
    /\ entry = "none" /\ input = NoInput /\ config = NoConfig /\ host = NoHost
    /\ escaped = "no"

HeapFrame ==
    UNCHANGED <<pc, entry, input, snapshot, config, footprint, storage_map, key_order,
                cpu_insns, cpu_insns2, events, host, overflow_checks, escaped, fee_calls, exhausted, other_vars>>

\* the records a boundary call can return, with the blocks the call leaves allocated:
\* a success record, an error-only record of a call that built no field, and the
\* error-only record of an invocation whose marshalling failed at the result
\* (lib.rs:174), at the events (lib.rs:177, which has an event to encode) or at the
\* reading of the budget (lib.rs:178-179)
HeapOutcomes(call) ==
    { [success |-> TRUE, blocks |-> invoke_result_blocks(call, n_auth, n_events)] :
          n_auth \in 0..MaxEntries, n_events \in 0..MaxEntries }
    \cup { [success |-> TRUE, blocks |-> footprint_result_blocks(call)],
           [success |-> FALSE, blocks |-> error_result_blocks(call)] }
    \cup { [success |-> FALSE, blocks |-> failed_invoke_blocks(call, n_auth, 0, "result")] :
              n_auth \in 0..MaxEntries }
    \cup { [success |-> FALSE, blocks |-> failed_invoke_blocks(call, n_auth, n_events, "events")] :
              n_auth \in 0..MaxEntries, n_events \in 1..MaxEntries }
    \cup { [success |-> FALSE, blocks |-> failed_invoke_blocks(call, n_auth, n_events, "budget")] :
              n_auth \in 0..MaxEntries, n_events \in 0..MaxEntries }

\* lib.rs:88-105, 219-236: a boundary call that returns a record
HeapCall ==
    /\ Len(records) < MaxCalls
    /\ LET call == Len(records) + 1
       IN  \E outcome \in HeapOutcomes(call) :
              /\ heap' = [heap EXCEPT !.live = @ \cup outcome.blocks]
              /\ ret' = Ptr(<< call, "record", 0 >>)
              /\ records' = Append(records, [ptr |-> Ptr(<< call, "record", 0 >>),
                                             freed |-> FALSE,
                                             success |-> outcome.success,
                                             allocations |-> Cardinality(outcome.blocks)])
              /\ out' = [tag |-> "Returned", ptr |-> Ptr(<< call, "record", 0 >>)]
    /\ HeapFrame

\* lib.rs:437-462: the caller frees a record it holds, once, or passes a null pointer
HeapFree ==
    /\ \/ \E i \in 1..Len(records) :
            /\ ~records[i].freed
            /\ heap' = free_preflight_result(heap, records[i].ptr)
            /\ records' = [records EXCEPT ![i].freed = TRUE]
            /\ out' = [tag |-> "Freed", ptr |-> records[i].ptr]
       \/ /\ heap' = free_preflight_result(heap, Null)
          /\ out' = [tag |-> "Freed", ptr |-> Null]
          /\ UNCHANGED records
    /\ UNCHANGED ret
    /\ HeapFrame

HeapNext == HeapCall \/ HeapFree

SpecHeap == HeapInit /\ [][HeapNext]_vars

----------------------------------------------------------------------------
(* Properties of the resource calculator *)

RECURSIVE SumOver(_, _)
\* the sum of f[k] over the keys k of the set S
SumOver(S, f) ==
    IF S = {} THEN 0
    ELSE LET k == CHOOSE x \in S : TRUE IN f[k] + SumOver(S \ {k}, f)

SeqKeys(list) == { list[i] : i \in 1..Len(list) }

KeysOf(access) == { k \in Keys : footprint[k] = access }

\* what one key adds to unmodified_bytes: its key bytes, and its entry bytes if present
UnmodifiedBytesOfKey ==
    [k \in Keys |-> key_xdr_len(k) + (IF snapshot[k].tag = "Found" THEN snapshot[k].len ELSE 0)]

\* what one key adds to write_bytes
WriteBytesOfKey == [k \in Keys |-> storage_map[k].len + key_xdr_len(k)]

LookupFails(S) == \E k \in S : snapshot[k].tag = "Error"

UnclassifiedKeys == { k \in Keys : storage_map[k].tag # "Absent" /\ footprint[k] = "None" }

\* C3 as stated: when no snapshot lookup of a footprint key fails, the resource
\* computation returns an error (no panic, no descriptor) if some key of the storage
\* map has no classification in the footprint, and a descriptor without panicking if
\* every key of the storage map is classified.
C3_Original ==
    (pc = "resources" /\ ~LookupFails(KeysOf("ReadOnly") \cup KeysOf("ReadWrite")))
        => IF UnclassifiedKeys # {}
           THEN IsErr(out)
           ELSE IsOk(out)

\* C7: unmodified_bytes of a list of keys is the sum over its keys of the key length
\* plus the entry length when the snapshot holds the key; NotFound adds no entry bytes
\* and is no failure; any other lookup error makes the computation fail.
C7_UnmodifiedBytes ==
    pc = "unmodified"
        => IF LookupFails(SeqKeys(out.keys))
           THEN IsErr(out.r)
           ELSE out.r = Ok(SumOver(SeqKeys(out.keys), UnmodifiedBytesOfKey))

C7_Witness ==
    /\ pc = "unmodified"
    /\ \E k \in SeqKeys(out.keys) : snapshot[k].tag = "NotFound"
    /\ \E k \in SeqKeys(out.keys) : snapshot[k].tag = "Found"
    /\ IsOk(out.r)
    /\ out.r.val = SumOver(SeqKeys(out.keys), UnmodifiedBytesOfKey)

\* C8: read_bytes of the descriptor is unmodified_bytes of the ReadOnly keys plus
\* unmodified_bytes of the ReadWrite keys.
C8_ReadBytes ==
    (pc = "resources" /\ IsOk(out))
        => out.val.read_bytes = SumOver(KeysOf("ReadOnly"), UnmodifiedBytesOfKey)
                                + SumOver(KeysOf("ReadWrite"), UnmodifiedBytesOfKey)

C8_Witness ==
    /\ pc = "resources" /\ IsOk(out)
    /\ KeysOf("ReadOnly") # {} /\ KeysOf("ReadWrite") # {}
    /\ \E k \in KeysOf("ReadWrite") : snapshot[k].tag = "Found"
    /\ out.val.read_bytes > 0

\* the scenario of C9: keyA (key 1) ReadOnly with a 40-byte entry in the snapshot,
\* keyB (key 2) ReadWrite with a 64-byte entry in the snapshot, and no other key
ScenarioAB ==
    /\ pc = "resources" /\ IsOk(out)
    /\ footprint[1] = "ReadOnly" /\ footprint[2] = "ReadWrite"
    /\ \A k \in Keys \ {1, 2} : footprint[k] = "None"
    /\ snapshot[1] = [tag |-> "Found", len |-> 40]
    /\ snapshot[2] = [tag |-> "Found", len |-> 64]

\* C9 as stated: in the scenario, read_bytes is 40 + 64 = 104.
C9_Original == ScenarioAB => out.val.read_bytes = 40 + 64

\* C9, amended: in the scenario, read_bytes is 40 + 64 plus the encoded lengths of
\* keyA and keyB.
C9_ReadBytesScenario ==
    ScenarioAB => out.val.read_bytes = 40 + 64 + key_xdr_len(1) + key_xdr_len(2)

C9_Witness == ScenarioAB /\ out.val.read_bytes = 104 + key_xdr_len(1) + key_xdr_len(2)

\* C10: write_bytes is the sum of value length + key length over exactly the keys of
\* the storage map that are ReadWrite in the footprint and hold a value at the end;
\* ReadOnly keys and deleted keys add nothing, and whether the snapshot holds the key
\* makes no difference.
C10_WriteBytes ==
    (pc = "resources" /\ IsOk(out))
        => out.val.write_bytes =
              SumOver({ k \in KeysOf("ReadWrite") : storage_map[k].tag = "Value" },
                      WriteBytesOfKey)

C10_Witness ==
    /\ pc = "resources" /\ IsOk(out)
    /\ \E k \in KeysOf("ReadWrite") :
          /\ storage_map[k].tag = "Value" /\ snapshot[k].tag = "NotFound"
          /\ out.val.write_bytes = storage_map[k].len + key_xdr_len(k)
    /\ \E k \in KeysOf("ReadOnly") : storage_map[k].tag = "Value"

\* the encoded lengths of the diagnostic events, summed over their positions
EventBytes == SumOver(DOMAIN events, events)

\* C11: metadata_bytes of the descriptor is unmodified_bytes of the ReadWrite keys
\* plus write_bytes plus the encoded lengths of all diagnostic events; the ReadOnly
\* keys add nothing to it.
C11_MetadataBytes ==
    (pc = "resources" /\ IsOk(out))
        => out.val.extended_meta_data_size_bytes =
              SumOver(KeysOf("ReadWrite"), UnmodifiedBytesOfKey)
              + SumOver({ k \in KeysOf("ReadWrite") : storage_map[k].tag = "Value" },
                        WriteBytesOfKey)
              + EventBytes

C11_Witness ==
    /\ pc = "resources" /\ IsOk(out)
    /\ \E k \in KeysOf("ReadOnly") : snapshot[k].tag = "Found"
    /\ \E k \in KeysOf("ReadWrite") : snapshot[k].tag = "Found" /\ storage_map[k].tag = "Value"
    /\ Len(events) = 2
    /\ out.val.extended_meta_data_size_bytes > out.val.write_bytes + EventBytes

\* the keys of the footprint
FootprintKeys == { k \in Keys : footprint[k] # "None" }

\* C12: the resources handed to the fee formula have read_entries = |ReadOnly keys| +
\* |ReadWrite keys| and write_entries = |ReadWrite keys|; every key of the footprint
\* is in exactly one of the two lists, the one of its access type, so that
\* read_entries is the number of keys of the footprint and write_entries <= read_entries.
C12_EntryCounts ==
    (pc = "computed" /\ IsOk(out.r))
        => LET tr == out.r.val.transaction_resources
               fp == out.r.val.transaction_data.resources.footprint
           IN  /\ tr.read_entries = Cardinality(KeysOf("ReadOnly")) + Cardinality(KeysOf("ReadWrite"))
               /\ tr.write_entries = Cardinality(KeysOf("ReadWrite"))
               /\ SeqKeys(fp.read_only) = KeysOf("ReadOnly")
               /\ SeqKeys(fp.read_write) = KeysOf("ReadWrite")
               /\ Len(fp.read_only) = Cardinality(KeysOf("ReadOnly"))
               /\ Len(fp.read_write) = Cardinality(KeysOf("ReadWrite"))
               /\ SeqKeys(fp.read_only) \cap SeqKeys(fp.read_write) = {}
               /\ tr.read_entries = Cardinality(FootprintKeys)
               /\ tr.write_entries <= tr.read_entries

C12_Witness ==
    /\ pc = "computed" /\ IsOk(out.r)
    /\ KeysOf("ReadOnly") # {} /\ KeysOf("ReadWrite") # {}
    /\ out.r.val.transaction_resources.read_entries = 2
    /\ out.r.val.transaction_resources.write_entries = 1

\* XDR pads variable-length opaque data and strings to a multiple of four bytes
pad4(n) == ((n + 3) \div 4) * 4

\* the encoded size of a signed envelope shaped like the one of fees.rs:75-100 (same
\* source accounts, no preconditions, one operation, the footprint) with a text memo
\* of memo_len bytes and num_sigs decorated signatures of sig_len bytes each
signed_envelope_xdr_len(op, fp, memo_len, num_sigs, sig_len) ==
    44 + 4 + 8 + 4 + (4 + 4 + pad4(memo_len)) + 4 + (4 + 44) + 4 + op_xdr_len(op)
    + 4 + (4 + keys_xdr_len(fp.read_only)) + (4 + keys_xdr_len(fp.read_write)) + 16 + 8 + 4
    + 4 + num_sigs * (4 + 4 + pad4(sig_len))

\* C13 as stated: transaction_size_bytes is the encoded size of the worst-case
\* envelope (28-byte text memo, 20 decorated signatures, the operation and its
\* footprint) times 115/100, and is never smaller than the encoded size of a signed
\* envelope with the same operation and footprint, a text memo of at most 28 bytes and
\* at most 20 signatures of full length (64 bytes).
C13_Original ==
    (pc = "computed" /\ IsOk(out.r))
        => LET size == out.r.val.transaction_resources.transaction_size_bytes
               fp == out.r.val.transaction_data.resources.footprint
           IN  /\ \E sig_len \in 0..64 :
                     size = (signed_envelope_xdr_len(out.op, fp, 28, 20, sig_len) * 115) \div 100
               /\ \A memo_len \in 0..28, num_sigs \in 0..20 :
                     size >= signed_envelope_xdr_len(out.op, fp, memo_len, num_sigs, 64)

----------------------------------------------------------------------------
(* Properties of the instruction margin *)

\* max(c + 50000, c * 115 / 100) when neither operation leaves the u64 range
LeewayHolds(count, result) ==
    LET plus == add_u64(count, U64Of(50000))
        times == mul_u64(count, 115)
    IN  /\ IsOk(result)
        /\ ~plus.overflow /\ ~times.overflow
        /\ u32_to_u64(result.val) = max_u64(plus.val, div_u64(times.val, 100))

\* C5 as stated: for every count the budget can report, the instructions field is
\* max(c + 50000, c * 115 / 100), and so never smaller than c.
C5_Original ==
    pc = "insns" => /\ LeewayHolds(cpu_insns, out[1])
                    /\ ~lt_u64(u32_to_u64(out[1].val), cpu_insns)

\* C6 as stated: for counts c1 < c2 the instructions value of c1 is below that of c2.
C6_Original ==
    (pc = "insns" /\ lt_u64(cpu_insns, cpu_insns2))
        => /\ IsOk(out[1]) /\ IsOk(out[2])
           /\ lt_u64(u32_to_u64(out[1].val), u32_to_u64(out[2].val))

----------------------------------------------------------------------------
(* Properties of the fee formula *)

\* C14: with the fixed rate table, a descriptor that is larger in one dimension and
\* equal in the others gets a minimum fee and a refundable fee that are not smaller.
C14_FeeMonotone ==
    pc = "quoted" => /\ ~lt_i64(out.high[1], out.low[1])
                     /\ ~lt_i64(out.high[2], out.low[2])

C14_Witness ==
    /\ pc = "quoted"
    /\ input.dimension = "metadata_size_bytes"
    /\ input.low.metadata_size_bytes = 1 /\ input.high.metadata_size_bytes = 2048
    /\ lt_i64(out.low[1], out.high[1])
    /\ lt_i64(out.low[2], out.high[2])
    /\ out.high[2] = << 400, 0, 0, 0 >>

----------------------------------------------------------------------------
(* Properties of the memory of the result records *)

\* the records the caller holds and has not freed
Unfreed == { i \in 1..Len(records) : ~records[i].freed }

\* the calls that returned a success record
SuccessCalls == { i \in 1..Len(records) : records[i].success }

\* the live blocks a call allocated
BlocksOf(i) == { b \in heap.live : b.addr[1] = i }

\* the number of blocks the record of a call leads to: all the call allocated when it
\* is a success record, the error string and the record when it is error-only
Reachable(i) ==
    IF records[i].success THEN records[i].allocations
    ELSE Cardinality(error_result_blocks(i))

\* C16: with exactly one free_preflight_result per returned record, every block the
\* engine allocated for a success record (its strings, the elements of its arrays, the
\* arrays, of element count + 1 places, and the record) is released exactly once and
\* as it was allocated: the live blocks of a call are all it allocated until its
\* record is freed and, afterwards, those its record does not lead to, which are none
\* for a success record; so none is left when every call succeeded and every record
\* is freed, and freeing a null pointer releases nothing.
C16_AllocationSymmetry ==
    /\ ~heap.fault
    /\ \A i \in 1..Len(records) :
          Cardinality(BlocksOf(i)) = (IF records[i].freed
                                      THEN records[i].allocations - Reachable(i)
                                      ELSE records[i].allocations)
    /\ \A i \in SuccessCalls : records[i].freed => BlocksOf(i) = {}
    /\ \A b \in heap.live :
          b.kind = "Vec" => b.cap = Cardinality({ c \in heap.live :
                                 /\ c.kind = "CString" /\ c.addr[1] = b.addr[1]
                                 /\ c.addr[2] = b.addr[2] }) + 1
    /\ (Unfreed = {} /\ SuccessCalls = 1..Len(records)) => heap.live = {}

C16_Witness ==
    /\ Len(records) = MaxCalls
    /\ SuccessCalls = 1..Len(records)
    /\ Unfreed = {}
    /\ records[1].allocations = 9
    /\ \E i \in 1..Len(records) : records[i].allocations = 2
    /\ out = [tag |-> "Freed", ptr |-> Null]
    /\ heap = EmptyHeap

----------------------------------------------------------------------------
(* Properties of the boundary call *)

Returned == pc = "returned" /\ entry \in {"invoke", "footprint"}

\* the error string is set and no success field is
ErrorOnly(r) ==
    /\ r.error # Null
    /\ r.auth = Null /\ r.result = Null /\ r.transaction_data = Null /\ r.events = Null
    /\ r.min_fee = Zero64 /\ r.cpu_instructions = Zero64 /\ r.memory_bytes = 0

\* the error string is null and the success fields of the entry point are set: all of
\* them for a contract invocation, the transaction data and the fee for a
\* footprint-expiration operation
SuccessOnly(r) ==
    /\ r.error = Null
    /\ r.transaction_data # Null
    /\ IF entry = "invoke"
       THEN r.auth # Null /\ r.result # Null /\ r.events # Null
       ELSE r.auth = Null /\ r.result = Null /\ r.events = Null
            /\ r.cpu_instructions = Zero64 /\ r.memory_bytes = 0

\* C1 as stated: when the wrapped pipeline panics, whatever the payload, the call
\* returns an error-only record and the panic does not reach the caller.
C1_Original ==
    (Returned /\ IsPanic(out)) => (escaped = "no" /\ ErrorOnly(ret))

\* C2: a record returned by a boundary call is error-only or success-only, never a
\* mix; a pipeline that ended in an error or a panic returns the error-only shape
\* and one that succeeded the success-only shape.
C2_ResultShape ==
    (Returned /\ escaped = "no")
        => /\ ErrorOnly(ret) \/ SuccessOnly(ret)
           /\ ~(ErrorOnly(ret) /\ SuccessOnly(ret))
           /\ (ret.error # Null) => ErrorOnly(ret)
           /\ IsOk(out) <=> SuccessOnly(ret)

C2_Witness ==
    /\ Returned /\ escaped = "no"
    /\ entry = "invoke" /\ IsOk(out)
    /\ SuccessOnly(ret)
    /\ ret.auth[1] # <<>> /\ ret.events[1] # <<>>

\* C4 as stated: when the invocation returns a failing contract result (an error, no
\* panic), the call still proceeds to harvesting the footprint and the events.
C4_Original ==
    (Returned /\ host.invocation = "Err") => host.harvested

\* a recorded payload carries both an address and a nonce, or neither
WellFormed(payload) == (payload.address = Null) <=> (payload.nonce = Null)

\* the authorization entry a well-formed payload stands for
ConvertedPayload(payload) ==
    IF payload.address # Null
    THEN [credentials |-> [type |-> "Address",
                           address |-> payload.address[1],
                           nonce |-> payload.nonce[1],
                           signature_expiration_ledger |-> 0,
                           signature |-> "Void"],
          root_invocation |-> payload.invocation]
    ELSE [credentials |-> [type |-> "SourceAccount"], root_invocation |-> payload.invocation]

\* the entries a successful call answers with: the recorded payloads, converted, when
\* the operation carried none, and the entries the operation carried otherwise
ExpectedAuths ==
    IF input.auth = <<>>
    THEN [i \in 1..Len(host.payloads) |-> ConvertedPayload(host.payloads[i])]
    ELSE input.auth

\* C17: the machine of an invocation call records authorizations exactly when the
\* decoded operation carries no authorization entry, and enforces exactly the supplied
\* entries otherwise; the entries of a success record are the converted recorded
\* payloads in the first case and the supplied entries, unchanged and in order, in the
\* second; the size handed to the fee formula is that of the operation with this list.
C17_AuthMode ==
    /\ (entry = "invoke" /\ host.invocation # "none") => host.mode # "none"
    /\ (entry = "invoke" /\ host.mode # "none")
          => IF input.auth = <<>>
             THEN host.mode = "recording" /\ host.enforced = <<>>
             ELSE host.mode = "enforcing" /\ host.enforced = input.auth
    /\ (pc = "marshal")
          => out.transaction_resources.transaction_size_bytes
               = estimate_max_transaction_size(
                     [host_function_len |-> input.host_function_len,
                      auth_lens |-> [i \in 1..Len(ExpectedAuths) |->
                                        auth_entry_xdr_len(ExpectedAuths[i])]],
                     storage_footprint_to_ledger_footprint(footprint, key_order))
    /\ (Returned /\ entry = "invoke" /\ IsOk(out))
          => ret.auth = Ptr([i \in 1..Len(ExpectedAuths) |-> B64(ExpectedAuths[i])])

C17_Witness ==
    /\ Returned /\ entry = "invoke" /\ IsOk(out)
    /\ host.mode = "enforcing"
    /\ Len(input.auth) = 2
    /\ ret.auth[1][1] = B64(input.auth[1]) /\ ret.auth[1][2] = B64(input.auth[2])
    /\ input.auth[1] # input.auth[2]

\* the recorded payloads of a machine that ran in recording mode and returned
MalformedPayloadRecorded ==
    /\ entry = "invoke" /\ host.mode = "recording" /\ host.invocation = "Ok"
    /\ \E i \in 1..Len(host.payloads) : ~WellFormed(host.payloads[i])

\* C18: a payload with address and nonce becomes an address-credential entry with
\* that address and nonce, a void signature and expiration ledger 0; a payload with
\* neither becomes a source-account-credential entry; the root invocation is copied.
\* A payload with only one of the two ends the call in an error-only record (the
\* caught panic of the conversion): no list of entries is kept, none is guessed.
C18_PayloadConversion ==
    /\ (entry = "invoke" /\ host.harvested /\ host.mode = "recording")
          => /\ \A i \in 1..Len(host.payloads) : WellFormed(host.payloads[i])
             /\ host.auths = [i \in 1..Len(host.payloads) |->
                                 ConvertedPayload(host.payloads[i])]
    /\ MalformedPayloadRecorded
          => /\ ~host.harvested /\ host.auths = <<>>
             /\ pc \in {"harvest", "returned"}
             /\ pc = "returned" => /\ escaped = "no" /\ IsPanic(out)
                                   /\ ErrorOnly(ret)

C18_Witness ==
    /\ pc = "returned" /\ MalformedPayloadRecorded
    /\ Len(host.payloads) = 2
    /\ host.payloads[2].address = Null /\ host.payloads[2].nonce # Null
    /\ ErrorOnly(ret)
    /\ ret.error = Ptr("panic during preflight() call: recorded_auth_payload_to_xdr: address and nonce present independently")

\* one of the three settings was queried and not found as its variant
ConfigFailed ==
    /\ entry = "invoke" /\ config # NoConfig
    /\ \/ config.compute # "found"
       \/ config.cpu # "found"
       \/ config.memory # "found"

\* C19: when one of the three configuration settings is missing or of the wrong
\* variant, the invocation call ends in an error-only record, the machine is never
\* built nor run, and no setting is queried twice.
C19_ConfigFailureEndsCall ==
    /\ ConfigFailed
          => /\ pc = "returned" /\ escaped = "no"
             /\ IsErr(out) /\ ErrorOnly(ret)
             /\ host = NoRun
    /\ (entry = "invoke" /\ config # NoConfig)
          => /\ Len(config.lookups) <= Cardinality(ConfigSettings)
             /\ \A i, j \in 1..Len(config.lookups) :
                   config.lookups[i] = config.lookups[j] => i = j

C19_Witness ==
    /\ pc = "returned" /\ ConfigFailed
    /\ config.compute = "found" /\ config.cpu = "found" /\ config.memory = "wrong_variant"
    /\ Len(config.lookups) = 3
    /\ ErrorOnly(ret)
    /\ host.invocation = "none"

\* the operation bodies the footprint-expiration entry point prices
FootprintOps == {"BumpFootprintExpiration", "RestoreFootprint"}

\* C24: the footprint-expiration entry point prices only a bump-footprint-expiration
\* or a restore-footprint body: a success record of it carries the transaction data
\* and the fee, null auth, result and events, and zero cpu_instructions and
\* memory_bytes; a body of another type, or an operation body or footprint that does
\* not decode, ends in an error-only record without any fee computation.
C24_FootprintEntryPoint ==
    (Returned /\ entry = "footprint")
        => /\ (input = NoInput \/ input.op \notin FootprintOps)
                => /\ fee_calls = <<>> /\ exhausted = {}
                   /\ escaped = "no" /\ IsErr(out) /\ ErrorOnly(ret)
           /\ fee_calls # <<>>
                => /\ input.op \in FootprintOps
                   /\ fee_calls = << footprint_fee_function(input.op) >>
           /\ IsOk(out)
                => /\ input.op \in FootprintOps /\ fee_calls # <<>>
                   /\ ret.error = Null
                   /\ ret.transaction_data # Null /\ ret.min_fee = out.val.min_fee
                   /\ ret.auth = Null /\ ret.result = Null /\ ret.events = Null
                   /\ ret.cpu_instructions = Zero64 /\ ret.memory_bytes = 0

C24_Witness ==
    /\ Returned /\ entry = "footprint"
    /\ input # NoInput /\ input.op = "InvokeHostFunction"
    /\ ErrorOnly(ret) /\ fee_calls = <<>> /\ exhausted = {}
    /\ ret.error = Ptr("preflight_footprint_expiration_op(): unsupported operation type InvokeHostFunction")

----------------------------------------------------------------------------
(* SpecMarshal: lib.rs:170-181 step by step.  The fields of the success    *)
(* record are built in the order of the struct literal, each behind a ?;   *)
(* a CString is released when it is dropped, a raw pointer (into_raw,      *)
(* vec_to_c_array) never is.                                               *)

MarshalInputs == [n_auth : 0..MaxEntries, n_events : 0..MaxEntries]

MarshalInit ==
    /\ pc = "transaction_data"
    /\ input \in MarshalInputs
    /\ heap = EmptyHeap /\ records = <<>> /\ fee_calls = <<>> /\ exhausted = {} /\ OtherInit
    /\ out = NoValue
    /\ ret = Null
    /\ footprint = EmptyFootprint /\ storage_map = EmptyStorageMap
    /\ snapshot = EmptySnapshot
    /\ key_order = Ascending
    /\ events = <<>>
    /\ cpu_insns = Zero64 /\ cpu_insns2 = Zero64
    /\ overflow_checks = TRUE
    /\ entry = "invoke" /\ config = NoConfig /\ host = NoHost
    /\ escaped = "no"

MarshalFrame ==
    UNCHANGED <<entry, input, snapshot, config, footprint, storage_map, key_order,
                cpu_insns, cpu_insns2, events, host, overflow_checks, escaped, records,
                fee_calls, exhausted, other_vars>>

\* the ? of a marshalling step returns Err(e): the locals that own memory are dropped
\* (transaction_data_cstr until its into_raw at lib.rs:174), the raw pointers already
\* made are plain values, and catch_preflight_panic (lib.rs:342) answers with the
\* error-only record of preflight_error
MarshalFail(e, owned) ==
    LET dropped == [heap EXCEPT !.live = { b \in @ : b.addr \notin owned }]
    IN  /\ heap' = [dropped EXCEPT !.live = @ \cup error_result_blocks(1)]
        /\ ret' = Ptr(<< 1, "record", 0 >>)
        /\ out' = Err(e)
        /\ pc' = "returned"

\* a step that allocates blocks and goes on
MarshalAlloc(blocks, next) ==
    /\ heap' = [heap EXCEPT !.live = @ \cup blocks]
    /\ pc' = next
    /\ UNCHANGED <<out, ret>>

\* lib.rs:170: CString::new(transaction_data.to_xdr_base64()?)?
MarshalTransactionData ==
    /\ pc = "transaction_data"
    /\ \/ MarshalAlloc({ cstring_into_raw(<< 1, "transaction_data", 0 >>) }, "auth")
       \/ MarshalFail("xdr value invalid", {})
    /\ MarshalFrame

\* lib.rs:173 with 346-355: recorded_auth_payloads_to_c(auths.to_vec())?
MarshalAuth ==
    /\ pc = "auth"
    /\ \/ MarshalAlloc(string_vec_blocks(1, "auth", input.n_auth), "result")
       \/ /\ input.n_auth > 0
          /\ MarshalFail("xdr value invalid", { << 1, "transaction_data", 0 >> })
    /\ MarshalFrame

\* lib.rs:174-175: CString::new(result.to_xdr_base64()?)?.into_raw(), then
\* transaction_data_cstr.into_raw()
MarshalResult ==
    /\ pc = "result"
    /\ \/ MarshalAlloc({ cstring_into_raw(<< 1, "result", 0 >>) }, "events")
       \/ MarshalFail("xdr value invalid", { << 1, "transaction_data", 0 >> })
    /\ MarshalFrame

\* lib.rs:177 with 392-400: diagnostic_events_to_c(diagnostic_events)?
MarshalEvents ==
    /\ pc = "events"
    /\ \/ MarshalAlloc(string_vec_blocks(1, "events", input.n_events), "budget")
       \/ /\ input.n_events > 0
          /\ MarshalFail("xdr value invalid", {})
    /\ MarshalFrame

\* lib.rs:178-179, 341: budget.get_cpu_insns_consumed()?, get_mem_bytes_consumed()?,
\* then the record is boxed and handed to the caller
\* (the blocks of the fields are live already: the union adds the record's box)
MarshalBudget ==
    /\ pc = "budget"
    /\ \/ /\ heap' = [heap EXCEPT !.live = @ \cup invoke_result_blocks(1, input.n_auth, input.n_events)]
          /\ ret' = Ptr(<< 1, "record", 0 >>)
          /\ out' = Ok("CPreflightResult")
          /\ pc' = "returned"
       \/ MarshalFail("HostError: Error(Context, InternalError)", {})
    /\ MarshalFrame

\* lib.rs:437-462: the caller frees the record it received, once
MarshalFree ==
    /\ pc = "returned"
    /\ heap' = free_preflight_result(heap, ret)
    /\ pc' = "freed"
    /\ UNCHANGED <<out, ret>>
    /\ MarshalFrame

MarshalNext ==
    \/ MarshalTransactionData
    \/ MarshalAuth
    \/ MarshalResult
    \/ MarshalEvents
    \/ MarshalBudget
    \/ MarshalFree

SpecMarshal == MarshalInit /\ [][MarshalNext]_vars

\* C25 as stated: once the error-only record of a call is freed, nothing the call
\* allocated is left: no string or array made for a success field before a later
\* marshalling step failed stays allocated.
C25_Original ==
    (pc = "freed" /\ IsErr(out)) => heap.live = {}

----------------------------------------------------------------------------
(* soroban-cli.  The commands of the command-line tool share nothing with  *)
(* the preflight library: in their specifications the variables of the     *)
(* library keep the values they have before any boundary call.             *)

preflight_vars == <<entry, snapshot, config, footprint, storage_map, key_order, cpu_insns, cpu_insns2, events, host, overflow_checks, ret, escaped, heap, records, fee_calls, exhausted>>

PreflightIdle ==
    /\ entry = "none" /\ snapshot = EmptySnapshot /\ config = NoConfig
    /\ footprint = EmptyFootprint /\ storage_map = EmptyStorageMap
    /\ key_order = Ascending
    /\ cpu_insns = Zero64 /\ cpu_insns2 = Zero64
    /\ events = <<>> /\ host = NoHost
    /\ overflow_checks = TRUE
    /\ ret = NoValue /\ escaped = "no"
    /\ heap = EmptyHeap /\ records = <<>> /\ fee_calls = <<>> /\ exhausted = {}

\* a step of a pure computation: from the input to the output
CliFrame == UNCHANGED <<input, preflight_vars, other_vars>>

----------------------------------------------------------------------------
(* config/secret.rs.  A string is its text and what the three tests of     *)
(* from_str say of it: the key PrivateKey::from_string decodes it to, if   *)
(* any; whether sep5::SeedPhrase::from_str accepts it; whether it starts   *)
(* with keyring::KEYCHAIN_ENTRY_PREFIX.                                    *)

SecretTexts == {"text1", "text2"}

SecretKeys == {"key1", "key2"}

SecretStrings ==
    [text : SecretTexts,
     strkey : {Null} \cup { Ptr(k) : k \in SecretKeys },
     seed : BOOLEAN,
     prefix : BOOLEAN]

\* index: Option<usize>
SecretIndexes == {Null, Ptr(0), Ptr(1)}

\* stellar_strkey::ed25519::PrivateKey::from_string
PrivateKey_from_string(s) ==
    IF s.strkey # Null THEN Ok(s.strkey[1]) ELSE Err("DecodeError")

\* sep5::SeedPhrase::from_str
SeedPhrase_from_str(s) ==
    IF s.seed THEN Ok([seed_phrase |-> s.text]) ELSE Err("sep5::error::Error")

\* a variant that tests the keychain prefix first
from_str_prefix_first(s) ==
    IF s.prefix THEN Ok([kind |-> "Keychain", entry_name |-> s])
    ELSE IF IsOk(PrivateKey_from_string(s)) THEN Ok([kind |-> "SecretKey", secret_key |-> s])
    ELSE IF IsOk(SeedPhrase_from_str(s)) THEN Ok([kind |-> "SeedPhrase", seed_phrase |-> s])
    ELSE Err([kind |-> "InvalidAddress", text |-> s.text])

\* secret.rs:93-109
from_str(s) ==
    IF IsOk(PrivateKey_from_string(s)) THEN Ok([kind |-> "SecretKey", secret_key |-> s])
    ELSE IF IsOk(SeedPhrase_from_str(s)) THEN Ok([kind |-> "SeedPhrase", seed_phrase |-> s])
    ELSE IF s.prefix THEN Ok([kind |-> "Keychain", entry_name |-> s])
    ELSE Err([kind |-> "InvalidAddress", text |-> s.text])

\* secret.rs:121-132
private_key(self, index) ==
    CASE self.kind = "SecretKey" ->
           LET key == PrivateKey_from_string(self.secret_key)
           IN  IF IsOk(key) THEN key ELSE Err("Secret(DecodeError)")
      [] self.kind = "SeedPhrase" ->
           LET phrase == SeedPhrase_from_str(self.seed_phrase)
           IN  IF IsOk(phrase)
               THEN Ok([derived_from |-> phrase.val.seed_phrase,
                        path_index |-> IF index = Null THEN 0 ELSE index[1]])
               ELSE Err("SeedPhrase(sep5::error::Error)")
      \* secret.rs:130: panic! with a literal and no argument, the payload is a &'static str
      [] OTHER -> Panic([type |-> "&str", text |-> "Keychain does not reveal secret key",
                         nul |-> FALSE])

SecretInit ==
    /\ pc = "input"
    /\ input \in [s : SecretStrings, index : SecretIndexes]
    /\ out = NoValue
    /\ PreflightIdle /\ OtherInit

\* secret.rs:93: Secret::from_str(s)
SecretFromStr ==
    /\ pc = "input"
    /\ out' = [secret |-> from_str(input.s)]
    /\ pc' = "parsed"
    /\ CliFrame

\* secret.rs:121: secret.private_key(index)
SecretPrivateKey ==
    /\ pc = "parsed" /\ IsOk(out.secret)
    /\ out' = [secret |-> out.secret, key |-> private_key(out.secret.val, input.index)]
    /\ pc' = "revealed"
    /\ CliFrame

SecretNext == SecretFromStr \/ SecretPrivateKey

SpecSecret == SecretInit /\ [][SecretNext]_vars

\* C22: from_str makes a SecretKey of a string exactly when the string decodes as a
\* strkey private key, a SeedPhrase exactly when it does not but parses as a seed
\* phrase, a Keychain, whose entry_name is the whole string, exactly when it is
\* neither but starts with the keychain prefix, and rejects every other string;
\* private_key of a SecretKey is the key the string decodes to, and private_key of a
\* Keychain secret panics.
C22_SecretClassification ==
    /\ pc \in {"parsed", "revealed"}
          => LET s == input.s
                 secret == out.secret
             IN  /\ (IsOk(secret) /\ secret.val.kind = "SecretKey") <=> (s.strkey # Null)
                 /\ (IsOk(secret) /\ secret.val.kind = "SeedPhrase")
                       <=> (s.strkey = Null /\ s.seed)
                 /\ (IsOk(secret) /\ secret.val.kind = "Keychain")
                       <=> (s.strkey = Null /\ ~s.seed /\ s.prefix)
                 /\ IsErr(secret) <=> (s.strkey = Null /\ ~s.seed /\ ~s.prefix)
                 /\ (IsOk(secret) /\ secret.val.kind = "Keychain")
                       => secret.val.entry_name = s
                 /\ IsErr(secret) => secret.err.text = s.text
    /\ pc = "revealed"
          => /\ out.secret.val.kind = "SecretKey" => out.key = Ok(input.s.strkey[1])
             /\ out.secret.val.kind = "Keychain" => IsPanic(out.key)

C22_Witness ==
    /\ pc = "revealed"
    /\ input.s.strkey = Ptr("key2") /\ input.s.seed /\ input.s.prefix
    /\ out.secret.val.kind = "SecretKey"
    /\ out.key = Ok("key2")

----------------------------------------------------------------------------
(* self_outdated_check.rs.  A version is its three numbers and its         *)
(* pre-release tag ("" for a release); a version string is a version or    *)
(* does not parse.                                                         *)

PreReleases == {"", "beta.1", "rc.1"}

Versions == [major : 0..1, minor : 0..1, patch : 0..1, pre : PreReleases]

VersionStrings == { Ptr(v) : v \in Versions } \cup { Null }

\* semver::Version::parse
Version_parse(str) == IF str = Null THEN Err("semver::Error") ELSE Ok(str[1])

\* semver: a pre-release precedes the release of the same numbers; two tags compare
\* as their identifiers do
pre_rank(pre) == CASE pre = "beta.1" -> 1 [] pre = "rc.1" -> 2 [] OTHER -> 3

\* semver: Ord for Version, a > b
version_gt(a, b) ==
    IF a.major # b.major THEN a.major > b.major
    ELSE IF a.minor # b.minor THEN a.minor > b.minor
    ELSE IF a.patch # b.patch THEN a.patch > b.patch
    ELSE pre_rank(a.pre) > pre_rank(b.pre)

\* a variant that answers a pre-release with the greatest version of all
get_latest_version_prefers_max(current_version, stats) ==
    LET max_stable_version == Version_parse(stats.max_stable_version)
        max_version == Version_parse(stats.max_version)
    IN  IF current_version.pre = ""
        THEN IF IsOk(max_stable_version) THEN max_stable_version
             ELSE Panic(FormattedPayload("called Result::unwrap() on an Err value"))
        ELSE IF ~IsOk(max_stable_version) \/ ~IsOk(max_version)
        THEN Panic(FormattedPayload("called Result::unwrap() on an Err value"))
        ELSE max_version

\* self_outdated_check.rs:81-97
get_latest_version(current_version, stats) ==
    LET max_stable_version == Version_parse(stats.max_stable_version)
        max_version == Version_parse(stats.max_version)
    IN  IF current_version.pre = ""
        THEN IF IsOk(max_stable_version) THEN max_stable_version
             ELSE Panic(FormattedPayload("called Result::unwrap() on an Err value"))
        ELSE IF ~IsOk(max_stable_version) \/ ~IsOk(max_version)
        THEN Panic(FormattedPayload("called Result::unwrap() on an Err value"))
        ELSE IF version_gt(max_stable_version.val, current_version)
        THEN max_stable_version
        ELSE max_version

VersionInit ==
    /\ pc = "input"
    /\ input \in [current_version : Versions,
                   stats : [max_stable_version : VersionStrings, max_version : VersionStrings]]
    /\ out = NoValue
    /\ PreflightIdle /\ OtherInit

\* self_outdated_check.rs:71
VersionCheck ==
    /\ pc = "input"
    /\ out' = get_latest_version(input.current_version, input.stats)
    /\ pc' = "checked"
    /\ CliFrame

VersionNext == VersionCheck

SpecVersion == VersionInit /\ [][VersionNext]_vars

\* the two version strings of the statistics are versions
StatsAreVersions ==
    input.stats.max_stable_version # Null /\ input.stats.max_version # Null

\* C23: with statistics that hold versions, get_latest_version answers a release
\* with the maximum stable version; it answers a pre-release with the maximum stable
\* version when that one is greater than the current version, and with the maximum
\* version, pre-releases included, otherwise.
C23_LatestVersion ==
    (pc = "checked" /\ StatsAreVersions)
        => LET current == input.current_version
               stable == input.stats.max_stable_version[1]
               newest == input.stats.max_version[1]
           IN  /\ IsOk(out)
               /\ current.pre = "" => out.val = stable
               /\ (current.pre # "" /\ version_gt(stable, current)) => out.val = stable
               /\ (current.pre # "" /\ ~version_gt(stable, current)) => out.val = newest

C23_Witness ==
    /\ pc = "checked" /\ StatsAreVersions
    /\ input.current_version = [major |-> 1, minor |-> 1, patch |-> 0, pre |-> "beta.1"]
    /\ input.stats.max_stable_version = Ptr([major |-> 1, minor |-> 0, patch |-> 0, pre |-> ""])
    /\ input.stats.max_version = Ptr([major |-> 1, minor |-> 1, patch |-> 0, pre |-> "rc.1"])
    /\ out = Ok([major |-> 1, minor |-> 1, patch |-> 0, pre |-> "rc.1"])

----------------------------------------------------------------------------
(* stellar-ledger/src/lib.rs: LedgerSigner::sign_transaction.  Bytes are   *)
(* numbers below 256; an index of a derivation path is a u32 kept as its   *)
(* two 16-bit halves, high half first.                                     *)

APDU_MAX_SIZE == 150

CLA == 224

SIGN_TX == 4

P1_SIGN_TX_FIRST == 0

P1_SIGN_TX_NOT_FIRST == 128

P2_SIGN_TX_LAST == 0

P2_SIGN_TX_MORE == 128

RETURN_CODE_OK == 36864

\* 0x80000000, the high half of a hardened index
Hardened == 32768

\* m, m/44'/148'/0', m/44'/148'/1', and a path of 38 elements, for which
\* 1 + 4 * depth exceeds APDU_MAX_SIZE
HdPaths ==
    { <<>>,
      << <<Hardened, 44>>, <<Hardened, 148>>, <<Hardened, 0>> >>,
      << <<Hardened, 44>>, <<Hardened, 148>>, <<Hardened, 1>> >>,
      [i \in 1..38 |-> <<Hardened, i>>] }

\* the encoded lengths of the signature payloads: the first three with the path
\* m/44'/148'/i' fill less than one chunk, exactly one chunk, and one chunk and four
\* bytes; the last one takes three chunks
PayloadLens == {100, 124, 128, 300}

\* signature_payload.to_xdr(..): the bytes of a payload of the given length
payload_bytes(len) == [i \in 1..len |-> (7 * i) % 256]

\* u32::to_be_bytes
to_be_bytes(value) ==
    << value[1] \div 256, value[1] % 256, value[2] \div 256, value[2] % 256 >>

RECURSIVE hd_path_to_bytes(_)
\* lib.rs:334-341
hd_path_to_bytes(hd_path) ==
    IF hd_path = <<>> THEN <<>>
    ELSE to_be_bytes(Head(hd_path)) \o hd_path_to_bytes(Tail(hd_path))

\* lib.rs:159-166
sign_tx_data(hd_path, payload_len) ==
    << Len(hd_path) >> \o hd_path_to_bytes(hd_path) \o payload_bytes(payload_len)

\* lib.rs:168-169 in u8 arithmetic: a build with overflow checks panics, another wraps
sign_tx_chunk_size(hd_path_elements_count, checks) ==
    LET product == hd_path_elements_count * 4
        buffer_size == 1 + product
    IN  IF buffer_size > 255
        THEN IF checks
             THEN Panic(OverflowPayload(IF product > 255 THEN "attempt to multiply with overflow"
                                        ELSE "attempt to add with overflow"))
             ELSE Ok((APDU_MAX_SIZE - (buffer_size % 256)) % 256)
        ELSE IF buffer_size > APDU_MAX_SIZE
        THEN IF checks THEN Panic(OverflowPayload("attempt to subtract with overflow"))
             ELSE Ok((APDU_MAX_SIZE - buffer_size) % 256)
        ELSE Ok(APDU_MAX_SIZE - buffer_size)

RECURSIVE chunks(_, _)
\* slice::chunks: pieces of chunk_size elements, the last one of what is left
chunks(data, chunk_size) ==
    IF Len(data) <= chunk_size THEN << data >>
    ELSE << SubSeq(data, 1, chunk_size) >>
         \o chunks(SubSeq(data, chunk_size + 1, Len(data)), chunk_size)

\* lib.rs:180-197: the command of chunk i, counted from 0
sign_tx_command(i, chunks_count, chunk) ==
    [cla |-> CLA,
     ins |-> SIGN_TX,
     p1 |-> IF i = 0 THEN P1_SIGN_TX_FIRST ELSE P1_SIGN_TX_NOT_FIRST,
     p2 |-> IF chunks_count = i + 1 THEN P2_SIGN_TX_LAST ELSE P2_SIGN_TX_MORE,
     data |-> chunk]

HexDigits == << "0", "1", "2", "3", "4", "5", "6", "7", "8", "9", "A", "B", "C", "D", "E", "F" >>

RECURSIVE upper_hex(_)
\* format!("{retcode:X}")
upper_hex(n) ==
    IF n < 16 THEN HexDigits[n + 1]
    ELSE upper_hex(n \div 16) \o HexDigits[(n % 16) + 1]

\* what the transport answers to one exchange: an error, or a response with its
\* return code (0x9000, 0x6C66, 0x6985, 0xFF) and data
Exchanges ==
    { [tag |-> "Err"] }
    \cup [tag : {"Ok"}, retcode : {RETURN_CODE_OK, 27750, 27013, 255},
          data : { <<>>, <<17>>, <<34, 51>> }]

\* a variant that takes the data of every response, whatever its return code
send_command_ignores_retcode(response) ==
    IF response.tag = "Err" THEN Err([kind |-> "LedgerConnectionError", text |-> "test"])
    ELSE Ok(response.data)

\* lib.rs:247-272
send_command_to_ledger(response) ==
    IF response.tag = "Err" THEN Err([kind |-> "LedgerConnectionError", text |-> "test"])
    ELSE IF response.retcode = RETURN_CODE_OK THEN Ok(response.data)
    ELSE Err([kind |-> "APDUExchangeError",
              text |-> "Ledger APDU retcode: 0x" \o upper_hex(response.retcode)])

GET_PUBLIC_KEY == 2

P1_GET_PUBLIC_KEY == 0

P2_GET_PUBLIC_KEY_NO_DISPLAY == 0

GET_APP_CONFIGURATION == 6

P1_GET_APP_CONFIGURATION == 0

P2_GET_APP_CONFIGURATION == 0

SIGN_TX_HASH == 8

P1_SIGN_TX_HASH == 0

P2_SIGN_TX_HASH == 0

\* lib.rs:96-105
get_app_configuration_command ==
    [cla |-> CLA, ins |-> GET_APP_CONFIGURATION,
     p1 |-> P1_GET_APP_CONFIGURATION, p2 |-> P2_GET_APP_CONFIGURATION, data |-> <<>>]

\* lib.rs:111-134
sign_transaction_hash_command(hd_path, transaction_hash) ==
    [cla |-> CLA, ins |-> SIGN_TX_HASH, p1 |-> P1_SIGN_TX_HASH, p2 |-> P2_SIGN_TX_HASH,
     data |-> << Len(hd_path) >> \o hd_path_to_bytes(hd_path) \o transaction_hash]

\* lib.rs:327-329: m/44'/148'/index' for a u32 index, given as its two 16-bit
\* halves; the parser refuses a hardened index of 2^31 or more and the unwrap panics
bip_path_from_index(index) ==
    IF index[1] >= Hardened
    THEN Panic(FormattedPayload("called Result::unwrap() on an Err value: InvalidIndex"))
    ELSE Ok(<< <<Hardened, 44>>, <<Hardened, 148>>, <<Hardened + index[1], index[2]>> >>)

\* lib.rs:213-237 with display_and_confirm = false (lib.rs:90)
get_public_key_command(hd_path) ==
    [cla |-> CLA, ins |-> GET_PUBLIC_KEY,
     p1 |-> P1_GET_PUBLIC_KEY, p2 |-> P2_GET_PUBLIC_KEY_NO_DISPLAY,
     data |-> << Len(hd_path) >> \o hd_path_to_bytes(hd_path)]

\* Result::unwrap on Err(LedgerError): the panic and its formatted message; the
\* message of the program has a backquote on both sides of Result::unwrap() and
\* of Err, a character the strings here cannot hold
unwrap_failed(err) ==
    Panic(FormattedPayload("called Result::unwrap() on an Err value: "
                           \o err.kind \o "(\"" \o err.text \o "\")"))

\* lib.rs:241-244: the key of the answered bytes, which must be 32
get_public_key_result(answer) ==
    IF ~IsOk(answer) THEN answer
    ELSE IF Len(answer.val) = 32 THEN Ok([public_key |-> answer.val])
    ELSE Panic(FormattedPayload("called Result::unwrap() on an Err value: Invalid"))

\* lib.rs:298-305, 313-320: the unwraps of the signature and of its conversion to at
\* most 64 bytes
decorated_signature(answer) ==
    IF ~IsOk(answer) THEN unwrap_failed(answer.err)
    ELSE IF Len(answer.val) > 64
    THEN Panic(FormattedPayload("called Result::unwrap() on an Err value: LengthExceedsMax"))
    ELSE Ok([hint |-> <<0, 0, 0, 0>>, signature |-> answer.val])

\* lib.rs:308-325
sign_txn(txn, answer) ==
    LET signature == decorated_signature(answer)
    IN  IF IsOk(signature) THEN Ok([tx |-> txn, signatures |-> << signature.val >>])
        ELSE signature

OtherOps == {"get_public_key", "get_app_configuration", "sign_transaction_hash", "sign_txn_hash"}

\* a transaction hash
HashBytes == [i \in 1..32 |-> 9]

\* the index handed to get_public_key: 1, 65536, and 2^31
Indexes == { <<0, 1>>, <<1, 0>>, <<Hardened, 0>> }

\* the other calls: get_public_key with its index (the other ones take none: 0)
OtherCalls ==
    { [op |-> "get_public_key", index |-> index] : index \in Indexes }
    \cup { [op |-> op, index |-> <<0, 0>>] : op \in OtherOps \ {"get_public_key"} }

\* the command of another call on the signer whose own path is self_hd_path, or the
\* panic that ends the call before it sends one (lib.rs:89)
other_command(call, self_hd_path) ==
    CASE call.op = "get_app_configuration" -> Ok(get_app_configuration_command)
      [] call.op = "get_public_key" ->
           LET hd_path == bip_path_from_index(call.index)
           IN  IF IsOk(hd_path) THEN Ok(get_public_key_command(hd_path.val)) ELSE hd_path
      [] call.op = "sign_transaction_hash" ->
           Ok(sign_transaction_hash_command(<<>>, HashBytes))
      [] OTHER -> Ok(sign_transaction_hash_command(self_hd_path, HashBytes))

\* what the other call returns for the answer of send_command_to_ledger
other_result(op, answer) ==
    CASE op = "get_public_key" -> get_public_key_result(answer)
      [] op = "sign_txn_hash" -> decorated_signature(answer)
      [] OTHER -> answer

\* what the transport answers to the other calls
OtherExchanges ==
    { [tag |-> "Err"],
      [tag |-> "Ok", retcode |-> RETURN_CODE_OK, data |-> <<1, 2, 3, 4>>],
      [tag |-> "Ok", retcode |-> RETURN_CODE_OK, data |-> [i \in 1..32 |-> i]],
      [tag |-> "Ok", retcode |-> 27013, data |-> <<>>] }

\* the exchange of the given caller that the transport has not answered yet
Pending(by) == CHOOSE i \in 1..Len(device) : device[i].by = by /\ device[i].response = NoValue

LedgerInit ==
    /\ pc = "start"
    /\ input \in [hd_path : HdPaths, payload_len : PayloadLens,
                   via : {"sign_transaction", "sign_txn"}]
    /\ overflow_checks \in BOOLEAN
    /\ device = <<>> /\ queries = <<>>
    /\ out = NoValue
    /\ files = <<>>
    /\ entry = "none" /\ snapshot = EmptySnapshot /\ config = NoConfig
    /\ footprint = EmptyFootprint /\ storage_map = EmptyStorageMap
    /\ key_order = Ascending
    /\ cpu_insns = Zero64 /\ cpu_insns2 = Zero64
    /\ events = <<>> /\ host = NoHost
    /\ ret = NoValue /\ escaped = "no"
    /\ heap = EmptyHeap /\ records = <<>> /\ fee_calls = <<>> /\ exhausted = {}

LedgerFrame == UNCHANGED <<input, preflight_vars, files>>

\* where sign_transaction returns to: its caller, or the unwrap of sign_txn
AfterSign == IF input.via = "sign_txn" THEN "unwrap" ELSE "done"

\* lib.rs:146-174: the data and its chunks
LedgerStart ==
    /\ pc = "start"
    /\ LET chunk_size == sign_tx_chunk_size(Len(input.hd_path), overflow_checks)
       IN  IF IsOk(chunk_size)
           THEN /\ out' = [chunks |-> chunks(sign_tx_data(input.hd_path, input.payload_len),
                                             chunk_size.val),
                           i |-> 0,
                           result |-> <<>>,
                           returned |-> NoValue,
                           envelope |-> NoValue]
                /\ pc' = "sending"
           ELSE /\ out' = [chunks |-> <<>>, i |-> 0, result |-> <<>>, returned |-> chunk_size,
                           envelope |-> NoValue]
                /\ pc' = "done"
    /\ UNCHANGED <<device, queries>>
    /\ LedgerFrame

\* lib.rs:179-199, 251: the command of the turn reaches the transport, and the
\* future waits for the answer
LedgerSend ==
    /\ pc = "sending"
    /\ device' = Append(device, [by |-> 0,
                                 command |-> sign_tx_command(out.i, Len(out.chunks),
                                                             out.chunks[out.i + 1]),
                                 response |-> NoValue])
    /\ pc' = "awaiting"
    /\ UNCHANGED <<out, queries>>
    /\ LedgerFrame

\* lib.rs:199-207, 251-271: the answer of the turn; lib.rs:209 after the last one
LedgerAnswer ==
    /\ pc = "awaiting"
    /\ \E response \in Exchanges :
         LET answer == send_command_to_ledger(response)
         IN  /\ device' = [device EXCEPT ![Pending(0)].response = response]
             /\ IF IsOk(answer)
                THEN LET result == out.result \o answer.val
                     IN  IF out.i + 1 = Len(out.chunks)
                         THEN /\ out' = [out EXCEPT !.i = @ + 1, !.result = result,
                                                    !.returned = Ok(result)]
                              /\ pc' = AfterSign
                         ELSE /\ out' = [out EXCEPT !.i = @ + 1, !.result = result]
                              /\ pc' = "sending"
                ELSE /\ out' = [out EXCEPT !.returned = answer]
                     /\ pc' = AfterSign
    /\ UNCHANGED queries
    /\ LedgerFrame

\* lib.rs:313-324: sign_txn after block_on(sign_transaction(..))
LedgerSignTxn ==
    /\ pc = "unwrap"
    /\ out' = [out EXCEPT !.envelope = sign_txn(input.payload_len, out.returned)]
    /\ pc' = "done"
    /\ UNCHANGED <<device, queries>>
    /\ LedgerFrame

\* lib.rs:85-134, 275-306: another call on the same signer, made before, while or
\* after it signs, sends its command
OtherSend ==
    /\ queries = <<>>
    /\ \E call \in OtherCalls :
         LET command == other_command(call, input.hd_path)
         IN  IF IsOk(command)
             THEN /\ queries' = Append(queries, [op |-> call.op, index |-> call.index,
                                                 state |-> "awaiting",
                                                 returned |-> NoValue])
                  /\ device' = Append(device, [by |-> Len(queries) + 1,
                                               command |-> command.val,
                                               response |-> NoValue])
             ELSE /\ queries' = Append(queries, [op |-> call.op, index |-> call.index,
                                                 state |-> "returned",
                                                 returned |-> command])
                  /\ UNCHANGED device
    /\ UNCHANGED <<pc, out>>
    /\ LedgerFrame

\* lib.rs:251-271 and the end of the other call
OtherAnswer ==
    /\ \E k \in 1..Len(queries), response \in OtherExchanges :
         /\ queries[k].state = "awaiting"
         /\ device' = [device EXCEPT ![Pending(k)].response = response]
         /\ queries' = [queries EXCEPT ![k] =
                           [op |-> queries[k].op, index |-> queries[k].index,
                            state |-> "returned",
                            returned |-> other_result(queries[k].op,
                                                      send_command_to_ledger(response))]]
    /\ UNCHANGED <<pc, out>>
    /\ LedgerFrame

LedgerNext ==
    LedgerStart \/ LedgerSend \/ LedgerAnswer \/ LedgerSignTxn \/ OtherSend \/ OtherAnswer

SpecLedger == LedgerInit /\ [][LedgerNext]_vars

\* the exchanges of sign_transaction, in the order of sending
SignExchanges == SelectSeq(device, LAMBDA x : x.by = 0)

RECURSIVE Concat(_)
\* the sequences of a sequence, one after the other
Concat(seqs) == IF seqs = <<>> THEN <<>> ELSE Head(seqs) \o Concat(Tail(seqs))

\* the largest chunk the claim allows for the path of the call
ChunkLimit == APDU_MAX_SIZE - (1 + 4 * Len(input.hd_path))

\* the call has sent every chunk and each exchange succeeded
AllSent == pc \in {"unwrap", "done"} /\ IsOk(out.returned)

\* C26 as stated: every command sent is a SIGN_TX command of at most
\* 150 - (1 + 4 * depth) data bytes; the first one, and no other, has P1 = FIRST, all
\* the others NOT_FIRST; the commands so far are the leading chunks of the data
\* (count, path bytes, payload), in order; when the call has sent them all their data
\* put together is the data, and the last one, and no other, has P2 = LAST, all the
\* others MORE.
C26_Original ==
    (pc # "start")
        => LET data == << Len(input.hd_path) >>
                       \o Concat([i \in 1..Len(input.hd_path) |->
                                     to_be_bytes(input.hd_path[i])])
                       \o payload_bytes(input.payload_len)
               sent == Concat([i \in 1..Len(SignExchanges) |-> SignExchanges[i].command.data])
           IN  /\ \A i \in 1..Len(SignExchanges) :
                     LET c == SignExchanges[i].command
                     IN  /\ c.cla = 224 /\ c.ins = 4
                         /\ Len(c.data) <= ChunkLimit
                         /\ c.p1 = (IF i = 1 THEN 0 ELSE 128)
                         /\ (i < Len(SignExchanges)) => c.p2 = 128
                         /\ (c.p2 = 0) <=> (Len(sent) = Len(data) /\ i = Len(SignExchanges))
               /\ Len(sent) <= Len(data)
               /\ sent = SubSeq(data, 1, Len(sent))
               /\ AllSent => sent = data

\* the exchanges of the call whose response is not a success
Failed == { i \in 1..Len(SignExchanges) :
              \/ SignExchanges[i].response.tag = "Err"
              \/ /\ SignExchanges[i].response.tag = "Ok"
                 /\ SignExchanges[i].response.retcode # 36864 }

\* C27: when an exchange fails the call returns its error at once and sends nothing
\* more: a transport error as a connection error, a return code other than 0x9000 as
\* APDUExchangeError with the text "Ledger APDU retcode: 0x" and the code in
\* upper-case hexadecimal digits; when every exchange succeeds the call returns the
\* data of the responses, put together in the order of sending.
C27_ExchangeFailure ==
    /\ Failed # {}
          => /\ Failed = { Len(SignExchanges) }
             /\ pc \in {"unwrap", "done"} /\ IsErr(out.returned)
             /\ LET response == SignExchanges[Len(SignExchanges)].response
                IN  IF response.tag = "Err"
                    THEN out.returned.err.kind = "LedgerConnectionError"
                    ELSE /\ out.returned.err.kind = "APDUExchangeError"
                         /\ out.returned.err.text
                               = (CASE response.retcode = 27750 -> "Ledger APDU retcode: 0x6C66"
                                    [] response.retcode = 27013 -> "Ledger APDU retcode: 0x6985"
                                    [] OTHER -> "Ledger APDU retcode: 0xFF")
    /\ AllSent
          => /\ Failed = {}
             /\ out.returned.val = Concat([i \in 1..Len(SignExchanges) |-> SignExchanges[i].response.data])
    /\ (pc = "done" /\ IsErr(out.returned)) => Failed # {}

C27_Witness ==
    /\ pc = "done"
    /\ Len(out.chunks) = 3 /\ Len(SignExchanges) = 2
    /\ SignExchanges[1].response.tag = "Ok" /\ SignExchanges[1].response.retcode = 36864
    /\ SignExchanges[2].response.tag = "Ok" /\ SignExchanges[2].response.retcode = 27750
    /\ out.returned = Err([kind |-> "APDUExchangeError", text |-> "Ledger APDU retcode: 0x6C66"])

----------------------------------------------------------------------------
(* signer.rs: sign_soroban_authorizations.  A signing key is a name; its   *)
(* verifying key, a signature and a hash are the terms built from what     *)
(* they are computed from.                                                 *)

SigningKeys == {"k1", "k2"}

\* SigningKey::verifying_key
verifying_key(k) == "G" \o k

\* accounts: those of the signing keys, and one nobody holds the key of
AccountKeys == { verifying_key(k) : k \in SigningKeys } \cup { "Gk3" }

AuthFunctions == {"ContractFn", "CreateContractHostFn"}

\* SorobanAuthorizationEntry: source-account credentials, or address credentials of
\* an account or of a contract, not signed yet
AuthEntries ==
    [credentials : {[type |-> "SourceAccount"]}, root_invocation : AuthFunctions]
    \cup [credentials : [type : {"Address"},
                         address : [kind : {"Account"}, id : AccountKeys]
                                   \cup {[kind |-> "Contract", id |-> "C1"]},
                         nonce : {7},
                         signature_expiration_ledger : {0},
                         signature : {"Void"}],
          root_invocation : {"ContractFn"}]

AuthLists ==
    {<<>>} \cup { <<e>> : e \in AuthEntries }
           \cup { <<e, f>> : e \in AuthEntries, f \in AuthEntries }

InvokeOp(auth) == [source_account |-> Null, body |-> "InvokeHostFunction", auth |-> auth]

PaymentOp == [source_account |-> Null, body |-> "Payment", auth |-> <<>>]

\* Transaction: its operations
Transactions ==
    { [operations |-> <<>>], [operations |-> << PaymentOp >>],
      [operations |-> << InvokeOp(<<>>), PaymentOp >>] }
    \cup { [operations |-> << InvokeOp(auth) >>] : auth \in AuthLists }

SignerLists == { <<>>, << "k1" >>, << "k2", "k1" >> }

\* signer.rs:32-45
requires_auth(txn) ==
    IF Len(txn.operations) # 1 THEN Null
    ELSE LET op == txn.operations[1]
         IN  IF op.body # "InvokeHostFunction" THEN Null
             ELSE IF op.auth # <<>> /\ op.auth[1].root_invocation = "ContractFn"
             THEN Ptr(op)
             ELSE Null

\* signer.rs:135-193
sign_soroban_authorization_entry(raw, signer, signature_expiration_ledger, network_id) ==
    IF raw.credentials.type # "Address" THEN Ok(raw)
    ELSE LET payload == [network_id |-> network_id,
                         invocation |-> raw.root_invocation,
                         nonce |-> raw.credentials.nonce,
                         signature_expiration_ledger |-> signature_expiration_ledger]
             map == [public_key |-> verifying_key(signer),
                     signature |-> [signed_by |-> signer, payload |-> payload]]
         IN  Ok([raw EXCEPT !.credentials.signature = << map >>,
                            !.credentials.signature_expiration_ledger
                                = signature_expiration_ledger])

RECURSIVE find(_, _)
\* signers.iter().find(|s| needle == s.verifying_key().as_bytes())
find(signers, needle) ==
    IF signers = <<>> THEN Null
    ELSE IF verifying_key(Head(signers)) = needle THEN Ptr(Head(signers))
    ELSE find(Tail(signers), needle)

\* a variant that signs with the source key when no key matches
find_signer_or_source(needle, source_key, signers) ==
    IF find(signers, needle) # Null THEN find(signers, needle) ELSE Ptr(source_key)

\* signer.rs:103-119: the key to sign with, if there is one
find_signer(needle, source_key, signers) ==
    IF find(signers, needle) # Null THEN find(signers, needle)
    ELSE IF needle = verifying_key(source_key) THEN Ptr(source_key)
    ELSE Null

\* signer.rs:78-127: the closure applied to one entry
sign_auth(raw_auth, source_key, signers, signature_expiration_ledger, network_id) ==
    IF raw_auth.credentials.type # "Address" THEN Ok(raw_auth)
    ELSE LET address == raw_auth.credentials.address
         IN  IF address.kind = "Contract"
             THEN Err([kind |-> "MissingSignerForAddress", address |-> address])
             ELSE LET signer == find_signer(address.id, source_key, signers)
                  IN  IF signer = Null
                      THEN Err([kind |-> "MissingSignerForAddress", address |-> address])
                      ELSE sign_soroban_authorization_entry(
                               raw_auth, signer[1], signature_expiration_ledger, network_id)

RECURSIVE collect_signed(_, _, _, _, _)
\* signer.rs:74-128: map(..).collect::<Result<Vec<_>, Error>>() stops at the first error
collect_signed(auth, source_key, signers, signature_expiration_ledger, network_id) ==
    IF auth = <<>> THEN Ok(<<>>)
    ELSE LET first == sign_auth(Head(auth), source_key, signers,
                                signature_expiration_ledger, network_id)
         IN  IF ~IsOk(first) THEN first
             ELSE LET rest == collect_signed(Tail(auth), source_key, signers,
                                             signature_expiration_ledger, network_id)
                  IN  IF ~IsOk(rest) THEN rest ELSE Ok(<< first.val >> \o rest.val)

\* signer.rs:49-133
sign_soroban_authorizations(raw, source_key, signers, signature_expiration_ledger, network_passphrase) ==
    LET op == requires_auth(raw)
    IN  IF op = Null THEN Ok(Null)
        ELSE LET network_id == [sha256 |-> network_passphrase]
                 signed_auths == collect_signed(op[1].auth, source_key, signers,
                                                signature_expiration_ledger, network_id)
             IN  IF ~IsOk(signed_auths) THEN signed_auths
                 ELSE Ok(Ptr([raw EXCEPT !.operations =
                                  << [op[1] EXCEPT !.auth = signed_auths.val] >>]))

SignInit ==
    /\ pc = "input"
    /\ input \in [raw : Transactions, source_key : SigningKeys, signers : SignerLists,
                   signature_expiration_ledger : {100},
                   network_passphrase : {"Test SDF Network ; September 2015"}]
    /\ out = NoValue
    /\ PreflightIdle /\ OtherInit

\* signer.rs:49: the call; raw is borrowed and stays as it is
SignAuthorizations ==
    /\ pc = "input"
    /\ out' = sign_soroban_authorizations(input.raw, input.source_key, input.signers,
                                           input.signature_expiration_ledger,
                                           input.network_passphrase)
    /\ pc' = "signed"
    /\ CliFrame

SignNext == SignAuthorizations

SpecSign == SignInit /\ [][SignNext]_vars

\* the transaction is one InvokeHostFunction operation whose first authorization
\* entry has a contract function as its root invocation
NeedsSigning ==
    /\ Len(input.raw.operations) = 1
    /\ input.raw.operations[1].body = "InvokeHostFunction"
    /\ input.raw.operations[1].auth # <<>>
    /\ input.raw.operations[1].auth[1].root_invocation = "ContractFn"

\* the keys at hand: the signers and the source key
KeysAtHand == { input.signers[i] : i \in 1..Len(input.signers) } \cup { input.source_key }

\* the entry has address credentials that no key at hand can sign for
Unsignable(e) ==
    /\ e.credentials.type = "Address"
    /\ \/ e.credentials.address.kind = "Contract"
       \/ \A k \in KeysAtHand : verifying_key(k) # e.credentials.address.id

\* C28: None unless the transaction is one InvokeHostFunction operation whose first
\* authorization entry has a contract function as root invocation; otherwise, when
\* every address-credential entry names an account with a key at hand, a transaction
\* with as many entries in the same order, the source-account entries unchanged, each
\* address entry signed by the key of its account over its own nonce and invocation
\* and carrying the given expiration ledger; MissingSignerForAddress, and no
\* transaction, when one of them names a contract or an account without a key at hand.
C28_AllOrNothing ==
    pc = "signed"
        => LET auth == input.raw.operations[1].auth
           IN  /\ ~NeedsSigning => out = Ok(Null)
               /\ (NeedsSigning /\ \E i \in 1..Len(auth) : Unsignable(auth[i]))
                     => /\ IsErr(out) /\ out.err.kind = "MissingSignerForAddress"
                        /\ \E i \in 1..Len(auth) :
                              Unsignable(auth[i]) /\ out.err.address = auth[i].credentials.address
               /\ (NeedsSigning /\ \A i \in 1..Len(auth) : ~Unsignable(auth[i]))
                     => /\ IsOk(out) /\ out.val # Null
                        /\ Len(out.val[1].operations) = 1
                        /\ out.val[1].operations[1].body = "InvokeHostFunction"
                        /\ LET signed == out.val[1].operations[1].auth
                           IN  /\ Len(signed) = Len(auth)
                               /\ \A i \in 1..Len(auth) :
                                     LET e == auth[i]
                                         c == signed[i].credentials
                                     IN  /\ signed[i].root_invocation = e.root_invocation
                                         /\ e.credentials.type # "Address" => signed[i] = e
                                         /\ e.credentials.type = "Address"
                                               => /\ c.type = "Address"
                                                  /\ c.address = e.credentials.address
                                                  /\ c.nonce = e.credentials.nonce
                                                  /\ c.signature_expiration_ledger = 100
                                                  /\ c.signature[1].public_key = c.address.id
                                                  /\ c.signature[1].signature.signed_by \in KeysAtHand
                                                  /\ verifying_key(c.signature[1].signature.signed_by)
                                                        = c.address.id
                                                  /\ c.signature[1].signature.payload.nonce = c.nonce
                                                  /\ c.signature[1].signature.payload.signature_expiration_ledger = 100

C28_Witness ==
    /\ pc = "signed" /\ NeedsSigning
    /\ Len(input.raw.operations[1].auth) = 2
    /\ input.raw.operations[1].auth[1].credentials.type = "Address"
    /\ input.raw.operations[1].auth[2].credentials.type = "SourceAccount"
    /\ input.signers = <<>> /\ input.source_key = "k2"
    /\ IsOk(out) /\ out.val # Null
    /\ out.val[1].operations[1].auth[1].credentials.signature[1].signature.signed_by = "k2"
    /\ out.val[1].operations[1].auth[2] = input.raw.operations[1].auth[2]

----------------------------------------------------------------------------
(* utils.rs: find_config_dir.  A path is absolute or relative and has its  *)
(* components; the file system says which config directories each          *)
(* directory holds, and a relative path is looked up from the working      *)
(* directory.                                                              *)

ConfigDirNames == {".stellar", ".soroban"}

\* the directories of the file system, by their components from the root
Dirs == { <<>>, << "a" >>, << "a", "b" >>, << "b" >> }

\* the starting directories: absolute ones, and relative ones with a working directory
StartPaths ==
    [absolute : {TRUE}, parts : Dirs, cwd : {<<>>}]
    \cup [absolute : {FALSE}, parts : {<<>>, << "b" >>}, cwd : {<< "a" >>}]

\* where the operating system finds the path
resolve(path) == IF path.absolute THEN path.parts ELSE path.cwd \o path.parts

\* Path::join
join(path, name) == [path EXCEPT !.parts = Append(path.parts, name)]

\* Path::exists of pwd.join(name)
exists(fs, path, name) == resolve(path) \in DOMAIN fs /\ name \in fs[resolve(path)]

\* PathBuf::pop: whether there is a parent; the root and the empty path have none
pop_ok(path) == path.parts # <<>>

\* PathBuf::pop: the path after it
pop(path) == IF pop_ok(path) THEN [path EXCEPT !.parts = SubSeq(path.parts, 1, Len(path.parts) - 1)] ELSE path

ConfigDirInit ==
    /\ pc = "loop"
    /\ files \in [Dirs -> SUBSET ConfigDirNames]
    /\ \E start \in StartPaths : input = [start |-> start, pwd |-> start]
    /\ out = NoValue
    /\ PreflightIdle
    /\ queries = <<>> /\ device = <<>>

ConfigDirFrame == UNCHANGED <<preflight_vars, other_vars>>

\* utils.rs:56-58: pwd.pop() succeeded, the loop goes on with the parent
ConfigDirPop ==
    /\ pc = "loop"
    /\ ~exists(files, input.pwd, ".stellar") /\ ~exists(files, input.pwd, ".soroban")
    /\ pop_ok(input.pwd)
    /\ input' = [input EXCEPT !.pwd = pop(input.pwd)]
    /\ UNCHANGED <<pc, out>> /\ ConfigDirFrame

\* utils.rs:38-54: one of the two exists in pwd, .stellar first
ConfigDirFound ==
    /\ pc = "loop"
    /\ exists(files, input.pwd, ".stellar") \/ exists(files, input.pwd, ".soroban")
    /\ out' = IF exists(files, input.pwd, ".stellar")
               THEN Ok(join(input.pwd, ".stellar"))
               ELSE Ok(join(input.pwd, ".soroban"))
    /\ pc' = "done"
    /\ UNCHANGED input /\ ConfigDirFrame

\* utils.rs:56-64: pwd.pop() failed, the loop ends with the error
ConfigDirNotFound ==
    /\ pc = "loop"
    /\ ~exists(files, input.pwd, ".stellar") /\ ~exists(files, input.pwd, ".soroban")
    /\ ~pop_ok(input.pwd)
    /\ out' = Err("stellar directory not found")
    /\ pc' = "done"
    /\ UNCHANGED input /\ ConfigDirFrame

ConfigDirNext == ConfigDirPop \/ ConfigDirFound \/ ConfigDirNotFound

SpecConfigDir == ConfigDirInit /\ [][ConfigDirNext]_vars

\* the directories from d up to the root
UpToRoot(d) == { SubSeq(d, 1, n) : n \in 0..Len(d) }

\* the directories from the starting directory up to the root that hold a config directory
Holders == { d \in UpToRoot(resolve(input.start)) : files[d] # {} }

\* the nearest of them
Nearest == CHOOSE d \in Holders : \A o \in Holders : Len(o) <= Len(d)

\* C29: the result is the config directory of the nearest directory from the starting
\* directory up to the root that holds .stellar or .soroban, .stellar when it holds
\* both, and the 'stellar directory not found' error when none does.
C29_Original ==
    pc = "done"
        => IF Holders = {} THEN out = Err("stellar directory not found")
           ELSE /\ IsOk(out)
                /\ resolve(out.val) = Append(Nearest, IF ".stellar" \in files[Nearest]
                                                      THEN ".stellar" ELSE ".soroban")

----------------------------------------------------------------------------
(* commands/contract/init.rs: copy_template_files.  A file of the project  *)
(* directory is named by its directory and file name; its content is the   *)
(* user's, the template's, a part of the template's, or it is absent.      *)

\* TemplateFiles::iter(): the embedded items, in the order of their paths; they are
\* the files the test of init.rs:164-209 finds after a run on an empty directory
TemplateItems ==
    << [dir |-> "", name |-> "Cargo.toml.removeextension"],
       [dir |-> "", name |-> "README.md"],
       [dir |-> "contracts/hello_world", name |-> "Cargo.toml.removeextension"],
       [dir |-> "contracts/hello_world/src", name |-> "lib.rs"],
       [dir |-> "contracts/hello_world/src", name |-> "test.rs"] >>

\* the paths of the project directory the copy can look at or write
ProjectFiles ==
    { TemplateItems[i] : i \in 1..Len(TemplateItems) }
    \cup { [dir |-> TemplateItems[i].dir, name |-> "Cargo.toml"] : i \in {1, 3} }

\* init.rs:138-143: metadata(path) is a file
file_exists(fs, path) == fs[path] # "absent"

\* init.rs:97-98: the path whose existence is tested
checked_path(item) == item

\* init.rs:118-123: the path written to
written_path(item) ==
    IF item.name = "Cargo.toml.removeextension" THEN [item EXCEPT !.name = "Cargo.toml"] ELSE item

CopyInit ==
    /\ pc = "copy"
    /\ files \in [ProjectFiles -> {"absent", "user"}]
    /\ \E overwrite \in BOOLEAN : input = [overwrite |-> overwrite, before |-> files]
    /\ queries = TemplateItems
    /\ out = NoValue
    /\ PreflightIdle
    /\ device = <<>>

CopyFrame == UNCHANGED <<input, preflight_vars, device>>

\* init.rs:97-103: the item exists and --overwrite is not given
CopySkip ==
    /\ pc = "copy" /\ queries # <<>>
    /\ file_exists(files, checked_path(Head(queries))) /\ ~input.overwrite
    /\ queries' = Tail(queries)
    /\ UNCHANGED <<pc, out, files>> /\ CopyFrame

\* init.rs:105-130: the item is written
CopyWrite ==
    /\ pc = "copy" /\ queries # <<>>
    /\ ~(file_exists(files, checked_path(Head(queries))) /\ ~input.overwrite)
    /\ files' = [files EXCEPT ![written_path(Head(queries))] = "template"]
    /\ queries' = Tail(queries)
    /\ UNCHANGED <<pc, out>> /\ CopyFrame

\* init.rs:105, 130, 150: the error of create_dir_all or of write is returned.
\* create_dir_all fails before the file is touched; std::fs::write opens the
\* file first, creating or truncating it, so a write that fails leaves the
\* file as it was (the open failed) or with a part of the content
CopyIoError ==
    /\ pc = "copy" /\ queries # <<>>
    /\ ~(file_exists(files, checked_path(Head(queries))) /\ ~input.overwrite)
    /\ \/ UNCHANGED files
       \/ files' = [files EXCEPT ![written_path(Head(queries))] = "partial"]
    /\ out' = Err("Io")
    /\ pc' = "done"
    /\ UNCHANGED queries /\ CopyFrame

\* init.rs:133-135: every item was handled; the contracts directory is
\* created, and the error of that is returned
CopyDone ==
    /\ pc = "copy" /\ queries = <<>>
    /\ out' \in { Ok(Null), Err("Io") }
    /\ pc' = "done"
    /\ UNCHANGED <<queries, files>> /\ CopyFrame

CopyNext == CopySkip \/ CopyWrite \/ CopyIoError \/ CopyDone

SpecCopy == CopyInit /\ [][CopyNext]_vars

\* C30: without --overwrite, every file that existed before the run keeps its content.
C30_Original ==
    ~input.overwrite
        => \A f \in ProjectFiles : input.before[f] = "user" => files[f] = "user"

====
